---- MODULE Spec2Model ----
(***************************************************************************)
(* Incremental transcript indexer of context-flow: the JSONL scanner       *)
(* (indexer.py), the auto-tagger (tagger.py), the store (db.py) and the    *)
(* tag-writing tools (server.py), as a state machine over                  *)
(*   - the transcript files on disk,                                       *)
(*   - the committed content of the SQLite store,                          *)
(*   - the working content of the one open write transaction.              *)
(***************************************************************************)
EXTENDS Integers, Sequences, FiniteSets, TLC

VARIABLES
    fs,      \* transcript files: path -> [lines, size]
    markers, \* session marker files: session id -> content (NULL: no file)
    db,      \* committed store content (what any other connection reads)
    tx,      \* store content as seen by the indexer's connection
    pc,      \* position of the indexer: idle / scan / cleared / markers
    run,     \* locals of the running index_all (idx, stats, all_session_ids)
    ret,     \* the value (or exception) the last finished operation returned
    budget,  \* remaining environment steps (bounds of the model only)
    peer     \* a second client running at the same time: its position and locals

vars == <<fs, markers, db, tx, pc, run, ret, budget, peer>>

----------------------------------------------------------------------------
(* Bounds of the model *)

MaxWrites == 3      \* writer steps (append / rewrite) in one behaviour of Spec
MaxRuns == 2        \* index_all / reindex invocations in one behaviour of Spec
TagWrites == 2      \* writer steps in one behaviour of SpecTags
TagRuns == 2        \* index_all / reindex invocations in one behaviour of SpecTags
MaxTagOps == 1      \* tag_message / tag_session calls in one behaviour of SpecTags
MaxDeltas == 3      \* scans merged into one session in one behaviour of SpecMerge
QueryWrites == 2    \* writer steps in one behaviour of SpecQuery
QueryRuns == 1      \* index_all invocations in one behaviour of SpecQuery
MaxRangeLen == 4    \* characters of a session-range string in SpecRange
MaxTokens == 2      \* tokens of a well-formed session-range string in SpecRange
MaxChain == 3       \* sessions of the chain a session-range string addresses
MaxPathLen == 4                 \* characters of a path or of a directory name
MaxParseLines == 3              \* lines of a file given to the parser alone
VanishRuns == 2                 \* runs while files may disappear
NotFoundWrites == 1             \* lines written while the not-found answers are checked
NotFoundRuns == 1               \* runs of the indexer there
NotFoundOps == 1                \* tag calls there
TwoWrites == 2                  \* lines appended while two runs may overlap
TwoRuns == 2                    \* runs of the first indexer there
MaxBlocks == 2                  \* content blocks of an assistant entry given to the extractor
MarkerWrites == 3               \* lines and marker files written while the marker passes are checked
MarkerRuns == 2                 \* index_all / reindex invocations there
WindowWrites == 3               \* batches written before the window around a timestamp is asked for
WindowRuns == 1                 \* index_all invocations there
ListTagsWrites == 2             \* lines written before the tags are listed
ListTagsRuns == 1               \* index_all invocations there
ListTagsOps == 2                \* tag_message / tag_session calls there
MonotoneWrites == 3             \* lines written while the session rows are watched
MonotoneRuns == 2               \* index_all invocations there
PinWrites == 2                  \* writer steps while a manual session tag is followed
PinRuns == 2                    \* index_all / reindex invocations there
PinOps == 1                     \* tag_session calls there
UnexpectedWrites == 2           \* lines written, some with unexpected field values
UnexpectedRuns == 2             \* index_all invocations there
PartialWrites == 2              \* lines the writer begins, in one piece or in two
PartialRuns == 2                \* index_all invocations there
LateWrites == 2                 \* lines appended, between runs or between a stat and its read
LateRuns == 2                   \* index_all invocations there

----------------------------------------------------------------------------
(* Values *)

NULL == "NULL"                  \* Python None / SQL NULL / absent JSON key

\* no second client is running
NoPeer == [op |-> "none"]

SUBSTANTIAL_THRESHOLD == 500

\* the marker glyph sequence of _check_insight (a star, then " Insight")
INSIGHT_MARK == "* Insight"

SKIP_TYPES == {"progress", "system", "file-history-snapshot", "queue-operation"}

Files == {"f1", "f2"}

\* os.walk order of the discovered *.jsonl files
FileOrder == <<"f1", "f2">>

\* name of the directory holding each file, as a sequence of characters
DirName(f) == IF f = "f1" THEN <<"-", "p">> ELSE <<"-", "q", "-", "r">>

Max(a, b) == IF a >= b THEN a ELSE b

Min(a, b) == IF a <= b THEN a ELSE b

\* One line of a transcript. type "garbage" is a line that is not a JSON
\* object; every other line is a JSON object with these keys
\* (NULL = key absent, ts 0 = no timestamp).
\* content is message.content of a user entry: a string token, or "LIST" for
\* a tool_result array; blocks is message.content of an assistant entry.
U1 == [type |-> "user", sid |-> "a01", ts |-> 1, slug |-> "a",
       branch |-> "main", cwd |-> "/p", content |-> "hi", plan |-> NULL,
       blocks |-> <<>>, model |-> NULL]

A1 == [type |-> "assistant", sid |-> "a01", ts |-> 2, slug |-> "b",
       branch |-> NULL, cwd |-> "/w", content |-> "LIST", plan |-> NULL,
       blocks |-> << [btype |-> "text", text |-> INSIGHT_MARK, name |-> NULL, arg |-> NULL],
                     [btype |-> "tool_use", text |-> NULL, name |-> "Bash", arg |-> "pytest"] >>,
       model |-> "m1"]

P2 == [type |-> "user", sid |-> "b02", ts |-> 3, slug |-> NULL,
       branch |-> NULL, cwd |-> NULL, content |-> "LIST", plan |-> "the plan",
       blocks |-> <<>>, model |-> NULL]

S2 == [type |-> "progress", sid |-> "b02", ts |-> 1, slug |-> "a",
       branch |-> "dev", cwd |-> NULL, content |-> NULL, plan |-> NULL,
       blocks |-> <<>>, model |-> NULL]

G0 == [type |-> "garbage", sid |-> NULL, ts |-> 0, slug |-> NULL,
       branch |-> NULL, cwd |-> NULL, content |-> NULL, plan |-> NULL,
       blocks |-> <<>>, model |-> NULL]

\* the lines a writer may put into each file
EntriesOf(f) == IF f = "f1" THEN {U1, A1, G0} ELSE {P2, S2, U1}

\* bytes of a line, its terminating newline included
LineLen(e) ==
    IF e.type = "garbage" THEN 2 ELSE IF e.type = "assistant" THEN 4 ELSE 3

RECURSIVE ByteSize(_)
ByteSize(lines) ==
    IF lines = <<>> THEN 0
    ELSE LineLen(Head(lines)) + ByteSize(Tail(lines))

\* character count and substring test of the content tokens in use
\* (phrase in token, resp. phrase in token.lower() for lower-case phrases)
TokLen(t) == Len(t)

TokHas(t, phrase) ==
    \/ t = phrase
    \/ t = "[Bash] pytest" /\ phrase = "pytest"

\* content is a sequence of tokens joined by a separator of sepLen characters
RECURSIVE SumLen(_)
SumLen(parts) ==
    IF parts = <<>> THEN 0 ELSE TokLen(Head(parts)) + SumLen(Tail(parts))

ContentLen(content) ==
    IF content = <<>> THEN 0 ELSE SumLen(content) + 2 * (Len(content) - 1)

ContentHas(content, phrase) ==
    \E i \in 1..Len(content) : TokHas(content[i], phrase)

----------------------------------------------------------------------------
(* db.py *)

RECURSIVE ReplaceDash(_)
ReplaceDash(s) ==
    IF s = <<>> THEN <<>>
    ELSE <<IF Head(s) = "-" THEN "/" ELSE Head(s)>> \o ReplaceDash(Tail(s))

decode_project_dir(dirname) ==
    IF dirname = <<>> \/ Head(dirname) # "-" THEN dirname
    ELSE <<"/">> \o ReplaceDash(Tail(dirname))

----------------------------------------------------------------------------
(* indexer.py: the entry extractor *)

IsStr(v) == v \notin {NULL, "LIST"}

\* mutant: only the empty string counts as empty, whitespace is not stripped
Blank_emptyOnly(s) == s = ""

\* s.strip() is empty
Blank(s) == s \in {"", " "}

\* input_data.get(key, "")
Arg(a) == IF a = NULL THEN "" ELSE a

_format_tool_summary(tool_name, arg) ==
    CASE tool_name \in {"Read", "Edit", "Write", "Bash", "Glob", "Task",
                        "WebSearch", "WebFetch"}
            -> "[" \o tool_name \o "] " \o Arg(arg)
      [] tool_name = "Grep" -> "[Grep] pattern=" \o Arg(arg) \o " path="
      [] OTHER -> "[" \o tool_name \o "]"

Msg(role, content, timestamp, model) ==
    [role |-> role, content |-> content, timestamp |-> timestamp, model |-> model]

RECURSIVE TextParts(_)
TextParts(blocks) ==
    IF blocks = <<>> THEN <<>>
    ELSE LET b == Head(blocks)
         IN (IF b.btype = "text" /\ ~Blank(Arg(b.text)) THEN <<b.text>> ELSE <<>>)
            \o TextParts(Tail(blocks))

RECURSIVE ToolSummaries(_)
ToolSummaries(blocks) ==
    IF blocks = <<>> THEN <<>>
    ELSE LET b == Head(blocks)
         IN (IF b.btype = "tool_use"
             THEN <<_format_tool_summary(IF b.name = NULL THEN "Unknown" ELSE b.name, b.arg)>>
             ELSE <<>>)
            \o ToolSummaries(Tail(blocks))

\* The messages of one entry, in order. A message's content is the sequence
\* of the parts that the code joins ("\n\n" for text, "\n" for tool lines).
_extract_from_entry(entry) ==
    IF entry.type \in SKIP_TYPES THEN <<>>
    ELSE IF entry.type = "user" THEN
        (IF IsStr(entry.content) /\ ~Blank(entry.content)
         THEN <<Msg("user", <<entry.content>>, entry.ts, NULL)>> ELSE <<>>)
        \o
        (IF entry.plan # NULL /\ IsStr(entry.plan) /\ ~Blank(entry.plan)
         THEN <<Msg("plan", <<entry.plan>>, entry.ts, NULL)>> ELSE <<>>)
    ELSE IF entry.type = "assistant" THEN
        IF entry.content # "LIST" THEN <<>>
        ELSE LET text_parts == TextParts(entry.blocks)
                 tool_summaries == ToolSummaries(entry.blocks)
             IN (IF text_parts # <<>>
                 THEN <<Msg("assistant", text_parts, entry.ts, entry.model)>> ELSE <<>>)
                \o
                (IF tool_summaries # <<>>
                 THEN <<Msg("tool_summary", tool_summaries, entry.ts, entry.model)>>
                 ELSE <<>>)
    ELSE <<>>

----------------------------------------------------------------------------
(* indexer.py: the file parser *)

NewMeta(session_id, project_dir) ==
    [session_id |-> session_id, project_dir |-> project_dir, slug |-> NULL,
     first_timestamp |-> 0, last_timestamp |-> 0, message_count |-> 0,
     git_branch |-> NULL, cwd |-> NULL]

\* if entry.get(key): meta[field] = entry[key]
Adopt(old, new) == IF new # NULL /\ new # "" THEN new ELSE old

\* the metadata of one entry folded into its session's meta of this parse
MergeEntryMeta(meta, entry, nmsgs) ==
    LET ts == entry.ts
    IN [meta EXCEPT
          !.first_timestamp =
              IF ts # 0 /\ (meta.first_timestamp = 0 \/ ts < meta.first_timestamp)
              THEN ts ELSE @,
          !.last_timestamp =
              IF ts # 0 /\ (meta.last_timestamp = 0 \/ ts > meta.last_timestamp)
              THEN ts ELSE @,
          !.slug = Adopt(@, entry.slug),
          !.git_branch = Adopt(@, entry.branch),
          !.cwd = Adopt(@, entry.cwd),
          !.message_count = @ + nmsgs]

RECURSIVE WithSession(_, _)
WithSession(msgs, session_id) ==
    IF msgs = <<>> THEN <<>>
    ELSE <<[session_id |-> session_id, role |-> Head(msgs).role,
            content |-> Head(msgs).content, timestamp |-> Head(msgs).timestamp,
            model |-> Head(msgs).model]>> \o WithSession(Tail(msgs), session_id)

\* One raw line that was read whole: skipped unless it is a JSON object
\* carrying a sessionId. acc = [messages, session_metas].
ParseLine(entry, project_dir, acc) ==
    IF entry.type = "garbage" THEN acc
    ELSE IF entry.sid = NULL \/ entry.sid = "" THEN acc
    ELSE LET sid == entry.sid
             metas0 == IF sid \in DOMAIN acc.session_metas
                       THEN acc.session_metas
                       ELSE acc.session_metas @@ (sid :> NewMeta(sid, project_dir))
             extracted == _extract_from_entry(entry)
         IN [messages |-> acc.messages \o WithSession(extracted, sid),
             session_metas |->
                 [metas0 EXCEPT ![sid] = MergeEntryMeta(@, entry, Len(extracted))]]

\* Lines i.. of a file of `size` bytes, line i starting at byte pos, read
\* from byte_offset to the end of the file. A line cut by the seek or by the
\* end of the file is read as the fragment it is, which is no JSON object
\* unless only its newline is missing.
RECURSIVE ParseFrom(_, _, _, _, _, _, _)
ParseFrom(lines, i, pos, size, byte_offset, project_dir, acc) ==
    IF i > Len(lines) \/ pos >= size THEN acc
    ELSE LET e == lines[i]
             end == pos + LineLen(e)
             whole == pos >= byte_offset /\ Min(end, size) - pos >= LineLen(e) - 1
         IN ParseFrom(lines, i + 1, end, size, byte_offset, project_dir,
                      IF end > byte_offset /\ whole
                      THEN ParseLine(e, project_dir, acc) ELSE acc)

NoMetas == [s \in {} |-> NULL]

_parse_file(f, file, byte_offset) ==
    ParseFrom(file.lines, 1, 0, file.size, byte_offset,
              decode_project_dir(DirName(f)),
              [messages |-> <<>>, session_metas |-> NoMetas])

----------------------------------------------------------------------------
(* tagger.py: the rules *)

Substantial(role, content) ==
    role = "assistant" /\ ContentLen(content) >= SUBSTANTIAL_THRESHOLD

\* any(phrase in content for phrase in phrases)
AnyPhrase(content, phrases) == \E p \in phrases : ContentHas(content, p)

_check_review_ux(role, content) ==
    Substantial(role, content)
    /\ AnyPhrase(content, {"ux review", "usability review",
                           "user experience review", "user experience audit"})

_check_review_architecture(role, content) ==
    Substantial(role, content)
    /\ AnyPhrase(content, {"architecture review", "system design review",
                           "architectural review", "architecture audit"})

_check_review_code(role, content) ==
    Substantial(role, content)
    /\ AnyPhrase(content, {"code review", "code quality review"})

_check_review_security(role, content) ==
    Substantial(role, content)
    /\ AnyPhrase(content, {"security review", "security audit",
                           "vulnerability assessment"})

_check_plan(role, content) ==
    \/ role = "plan"
    \/ /\ Substantial(role, content)
       /\ ContentHas(content, "## Phase ")
       /\ ContentHas(content, "## Implementation")

_check_decision(role, content) ==
    Substantial(role, content)
    /\ AnyPhrase(content, {"decided to ", "decision:", "the approach is",
                           "chose ", " over ", "trade-off"})

_check_investigation(role, content) ==
    Substantial(role, content)
    /\ AnyPhrase(content, {"root cause", "the issue was", "found the bug",
                           "the problem was", "debugging revealed"})

_check_insight(role, content) ==
    role = "assistant" /\ ContentHas(content, INSIGHT_MARK)

\* the tags of MESSAGE_TAG_RULES whose check holds
MESSAGE_TAG_RULES(role, content) ==
    {t \in {"review:ux", "review:architecture", "review:code", "review:security",
            "plan", "decision", "investigation", "insight"} :
        CASE t = "review:ux" -> _check_review_ux(role, content)
          [] t = "review:architecture" -> _check_review_architecture(role, content)
          [] t = "review:code" -> _check_review_code(role, content)
          [] t = "review:security" -> _check_review_security(role, content)
          [] t = "plan" -> _check_plan(role, content)
          [] t = "decision" -> _check_decision(role, content)
          [] t = "investigation" -> _check_investigation(role, content)
          [] t = "insight" -> _check_insight(role, content)}

\* messages is a set of [role, content]
_check_has_browser(messages) ==
    \E m \in messages :
        m.role = "tool_summary"
        /\ (ContentHas(m.content, "[browser_") \/ ContentHas(m.content, "playwright"))

_check_has_tests(messages) ==
    \E m \in messages :
        m.role = "tool_summary"
        /\ AnyPhrase(m.content, {"pytest", "vitest", "npm run test", "npm run check"})

_check_has_deploy(messages) ==
    \E m \in messages :
        m.role = "tool_summary"
        /\ AnyPhrase(m.content, {"ssh ", "docker ", "deploy", "rsync"})

_check_has_planning(messages) == \E m \in messages : m.role = "plan"

SESSION_TAG_RULES(messages) ==
    {t \in {"has:browser", "has:tests", "has:deploy", "has:planning"} :
        CASE t = "has:browser" -> _check_has_browser(messages)
          [] t = "has:tests" -> _check_has_tests(messages)
          [] t = "has:deploy" -> _check_has_deploy(messages)
          [] t = "has:planning" -> _check_has_planning(messages)}

----------------------------------------------------------------------------
(* The store. A store content is a record
     files     path -> [size, byte_offset, glines]       (indexed_files)
     sessions  session_id -> row                         (sessions)
     messages  the rows of messages, in id order
     seq       sqlite_sequence of messages (AUTOINCREMENT)
     mtags     rows [subject, tag, source] of message_tags
     stags     rows [subject, tag, source] of session_tags
   glines is a history field, no column of the table: the lines the file
   held when the row was written. indexed_at (wall clock) is left out. *)

NoRows == [x \in {} |-> NULL]

\* issued is history only: the ids given to message rows by the transactions
\* that committed and by the open one (a rollback takes its ids back with
\* its rows)
EmptyStore ==
    [files |-> NoRows, sessions |-> NoRows, messages |-> <<>>, seq |-> 0,
     mtags |-> {}, stags |-> {}, issued |-> {}]

\* the tag tables are keyed by (subject, tag): the source is no part of the key
TagConflict(table, row) ==
    \E r \in table : r.subject = row.subject /\ r.tag = row.tag

\* mutant: INSERT OR REPLACE
InsertOrIgnore_replace(table, row) ==
    {r \in table : ~(r.subject = row.subject /\ r.tag = row.tag)} \cup {row}

\* mutant: plain INSERT into a table that does not reject the second row
InsertOrIgnore_plain(table, row) == table \cup {row}

\* INSERT OR IGNORE INTO <tag table> (subject, tag, source) VALUES (...)
InsertOrIgnore(table, row) ==
    IF TagConflict(table, row) THEN table ELSE table \cup {row}

\* executemany of INSERT OR IGNORE over a list of (subject, tag, source)
RECURSIVE InsertOrIgnoreMany(_, _)
InsertOrIgnoreMany(table, rows) ==
    IF rows = <<>> THEN table
    ELSE InsertOrIgnoreMany(InsertOrIgnore(table, Head(rows)), Tail(rows))

\* a set of rows as a list (any order)
RECURSIVE SetToSeq(_)
SetToSeq(S) ==
    IF S = {} THEN <<>>
    ELSE LET x == CHOOSE x \in S : TRUE IN <<x>> \o SetToSeq(S \ {x})

\* SELECT COALESCE(MAX(id), 0) FROM messages
MaxMessageId(store) ==
    IF store.messages = <<>> THEN 0
    ELSE store.messages[Len(store.messages)].id

\* mutant: id INTEGER PRIMARY KEY without AUTOINCREMENT
NextMessageId_maxPlusOne(store) == MaxMessageId(store) + 1

\* the rowid AUTOINCREMENT gives the next inserted message: one more than
\* the largest rowid the table has ever held
NextMessageId(store) == Max(store.seq, MaxMessageId(store)) + 1

\* executemany INSERT INTO messages: one row per message, in order
RECURSIVE InsertMessages(_, _)
InsertMessages(store, msgs) ==
    IF msgs = <<>> THEN store
    ELSE LET id == NextMessageId(store)
             m == Head(msgs)
             row == [id |-> id, session_id |-> m.session_id, role |-> m.role,
                     content |-> m.content, timestamp |-> m.timestamp,
                     model |-> m.model]
         IN InsertMessages([store EXCEPT !.messages = Append(@, row), !.seq = id,
                                         !.issued = @ \cup {id}],
                           Tail(msgs))

\* list(range(max_id_before + 1, max_id_before + 1 + len(messages)))
NewIds(max_id_before, n) == (max_id_before + 1)..(max_id_before + n)

auto_tag_messages(store, message_ids) ==
    LET rows == {i \in 1..Len(store.messages) : store.messages[i].id \in message_ids}
        tags_to_insert ==
            UNION {{[subject |-> store.messages[i].id, tag |-> t, source |-> "auto"] :
                        t \in MESSAGE_TAG_RULES(store.messages[i].role,
                                                store.messages[i].content)} :
                   i \in rows}
    IN [store EXCEPT !.mtags = InsertOrIgnoreMany(@, SetToSeq(tags_to_insert))]

\* mutant: only the tool_summary messages of the session are fetched
auto_tag_session_toolOnly(store, session_id) ==
    LET messages ==
            {[role |-> store.messages[i].role, content |-> store.messages[i].content] :
                i \in {j \in 1..Len(store.messages) :
                          /\ store.messages[j].session_id = session_id
                          /\ store.messages[j].role = "tool_summary"}}
        tags_to_insert ==
            {[subject |-> session_id, tag |-> t, source |-> "auto"] :
                t \in SESSION_TAG_RULES(messages)}
    IN [store EXCEPT !.stags = InsertOrIgnoreMany(@, SetToSeq(tags_to_insert))]

auto_tag_session(store, session_id) ==
    LET messages ==
            {[role |-> store.messages[i].role, content |-> store.messages[i].content] :
                i \in {j \in 1..Len(store.messages) :
                          /\ store.messages[j].session_id = session_id
                          /\ store.messages[j].role \in {"tool_summary", "plan"}}}
        tags_to_insert ==
            {[subject |-> session_id, tag |-> t, source |-> "auto"] :
                t \in SESSION_TAG_RULES(messages)}
    IN [store EXCEPT !.stags = InsertOrIgnoreMany(@, SetToSeq(tags_to_insert))]

\* mutant: COALESCE(column, ?)
Coalesce_keepStored(new, old) == IF old # NULL THEN old ELSE new

\* COALESCE(new, old)
Coalesce(new, old) == IF new # NULL THEN new ELSE old

\* mutant: first_ts = meta["first_timestamp"] whenever the scan has one
MergeFirst_takeNew(existing, new) == IF new # 0 THEN new ELSE existing

\* first_ts of the merge: min when both are set, else the one that is set
MergeFirst(existing, new) ==
    IF existing # 0 /\ new # 0 THEN Min(existing, new)
    ELSE IF existing # 0 THEN existing ELSE new

\* mutant: last_ts = meta["last_timestamp"] whenever the scan has one
MergeLast_takeNew(existing, new) == IF new # 0 THEN new ELSE existing

MergeLast(existing, new) ==
    IF existing # 0 /\ new # 0 THEN Max(existing, new)
    ELSE IF existing # 0 THEN existing ELSE new

\* mutant: message_count = ? instead of message_count = message_count + ?
MergeSession_overwriteCount(existing, meta) ==
    [session_id |-> existing.session_id,
     project_dir |-> Coalesce(meta.project_dir, existing.project_dir),
     slug |-> Coalesce(meta.slug, existing.slug),
     first_timestamp |-> MergeFirst(existing.first_timestamp, meta.first_timestamp),
     last_timestamp |-> MergeLast(existing.last_timestamp, meta.last_timestamp),
     message_count |-> meta.message_count,
     git_branch |-> Coalesce(meta.git_branch, existing.git_branch),
     cwd |-> Coalesce(meta.cwd, existing.cwd)]

\* the UPDATE of an existing sessions row
MergeSession(existing, meta) ==
    [session_id |-> existing.session_id,
     project_dir |-> Coalesce(meta.project_dir, existing.project_dir),
     slug |-> Coalesce(meta.slug, existing.slug),
     first_timestamp |-> MergeFirst(existing.first_timestamp, meta.first_timestamp),
     last_timestamp |-> MergeLast(existing.last_timestamp, meta.last_timestamp),
     message_count |-> existing.message_count + meta.message_count,
     git_branch |-> Coalesce(meta.git_branch, existing.git_branch),
     cwd |-> Coalesce(meta.cwd, existing.cwd)]

_upsert_session(store, meta) ==
    IF meta.session_id \notin DOMAIN store.sessions
    THEN [store EXCEPT !.sessions = @ @@ (meta.session_id :> meta)]
    ELSE [store EXCEPT !.sessions[meta.session_id] = MergeSession(@, meta)]

\* for meta in session_metas.values(): _upsert_session(conn, meta)
RECURSIVE UpsertAll(_, _, _)
UpsertAll(store, session_metas, todo) ==
    IF todo = {} THEN store
    ELSE LET sid == CHOOSE s \in todo : TRUE
         IN UpsertAll(_upsert_session(store, session_metas[sid]), session_metas,
                      todo \ {sid})

----------------------------------------------------------------------------
(* indexer.py: session markers *)

\* _UUID_RE.match(sid), for the identifiers in use
UuidMatch(sid) == sid \in {"a01", "b02"}

\* mk: the marker directory. mk[sid] is NULL when there is no <sid>.json,
\* "BAD" when the file is no JSON, "" when it names no workstream, else the
\* workstream it names.
_read_and_apply_marker(store, mk, sid) ==
    IF ~UuidMatch(sid) THEN store
    ELSE IF mk[sid] \in {"BAD", ""} THEN store
    ELSE [store EXCEPT !.stags =
             InsertOrIgnore(@, [subject |-> sid, tag |-> "workstream:" \o mk[sid],
                                source |-> "auto"])]

RECURSIVE ApplyMarkers(_, _, _)
ApplyMarkers(store, mk, todo) ==
    IF todo = {} THEN store
    ELSE LET sid == CHOOSE s \in todo : TRUE
         IN ApplyMarkers(_read_and_apply_marker(store, mk, sid), mk, todo \ {sid})

MarkerExists(mk, sid) == sid \in DOMAIN mk /\ mk[sid] # NULL

_apply_session_markers(store, mk, session_ids) ==
    ApplyMarkers(store, mk, {sid \in session_ids : MarkerExists(mk, sid)})

_apply_all_session_markers(store, mk) ==
    ApplyMarkers(store, mk,
                 {sid \in DOMAIN mk : MarkerExists(mk, sid) /\ sid \in DOMAIN store.sessions})

----------------------------------------------------------------------------
(* indexer.py: index_all, one file of the loop *)

NewRun(mode) ==
    [mode |-> mode, idx |-> 0, total_messages |-> 0, total_files |-> 0,
     total_skipped |-> 0, all_session_ids |-> {}, new_ids |-> {}, assigned |-> {}]

IdleRun == NewRun("none")

\* mutant: the size comparison never finds a file unchanged
Unchanged_never(store, f, file_size) == FALSE

\* file_size == stored_size: the file is skipped
Unchanged(store, f, file_size) ==
    f \in DOMAIN store.files /\ file_size = store.files[f].size

\* mutant: a file that grew is parsed from byte 0 again
StartOffset_restart(store, f, file_size) == 0

\* the byte the parse starts at: the stored offset of a file that grew, byte
\* 0 of a file that shrank or was not seen before
StartOffset(store, f, file_size) ==
    IF f \in DOMAIN store.files /\ file_size > store.files[f].size
    THEN store.files[f].byte_offset
    ELSE 0

\* mutant: ON CONFLICT updates size but leaves byte_offset as stored
UpdateIndexedFile_staleOffset(store, f, file_size, lines) ==
    [store EXCEPT !.files =
        (f :> [size |-> file_size,
               byte_offset |-> IF f \in DOMAIN @ THEN @[f].byte_offset ELSE file_size,
               glines |-> lines]) @@ @]

\* INSERT INTO indexed_files ... ON CONFLICT(path) DO UPDATE
UpdateIndexedFile(store, f, file_size, lines) ==
    [store EXCEPT !.files =
        (f :> [size |-> file_size, byte_offset |-> file_size, glines |-> lines]) @@ @]

\* the ids of the rows that `after` holds and `before` does not
AddedIds(before, after) ==
    {after.messages[i].id : i \in (Len(before.messages) + 1)..Len(after.messages)}

\* The body of "for filepath in jsonl_files" for file f and the locals r:
\* stat gave file_size, the SELECT on indexed_files read `seen`, the file
\* is `file` when _parse_file opens it, the writes go to `store`. Gives the
\* new view and the new locals.
IndexFileRead(seen, store, mk, r, f, file_size, file) ==
       IF Unchanged(seen, f, file_size)
       THEN [store |-> store,
             run |-> [r EXCEPT !.idx = @ + 1, !.total_skipped = @ + 1]]
       ELSE
         LET parsed == _parse_file(f, file, StartOffset(seen, f, file_size))
             messages == parsed.messages
             session_metas == parsed.session_metas
             s1 == UpsertAll(store, session_metas, DOMAIN session_metas)
             max_id_before == MaxMessageId(s1)
             s2 == InsertMessages(s1, messages)
             new_ids == NewIds(max_id_before, Len(messages))
             s3 == IF messages # <<>> THEN auto_tag_messages(s2, new_ids) ELSE s1
             some == messages # <<>> \/ DOMAIN session_metas # {}
         IN [store |-> UpdateIndexedFile(s3, f, file_size, file.lines),
             run |-> [r EXCEPT
                        !.idx = @ + 1,
                        !.all_session_ids = @ \cup DOMAIN session_metas,
                        !.total_messages = @ + Len(messages),
                        !.total_files = @ + (IF some THEN 1 ELSE 0),
                        !.new_ids = IF messages # <<>> THEN new_ids ELSE @,
                        !.assigned = IF messages # <<>> THEN AddedIds(s1, s2) ELSE @]]

\* the loop body over a file that is, when read, as it was at its stat
IndexFileAt(seen, store, mk, r, f, file) ==
    IndexFileRead(seen, store, mk, r, f, file.size, file)

\* the loop body on one connection with nothing committed by others between
\* its SELECT and its writes
IndexFile(store, mk, r, f, file) == IndexFileAt(store, store, mk, r, f, file)

RECURSIVE TagSessions(_, _)
TagSessions(store, todo) ==
    IF todo = {} THEN store
    ELSE LET sid == CHOOSE s \in todo : TRUE
         IN TagSessions(auto_tag_session(store, sid), todo \ {sid})

\* the end of index_all's try block, up to the commit
FinishStore(store, mk, r) ==
    _apply_session_markers(TagSessions(store, r.all_session_ids), mk, r.all_session_ids)

Stats(r) ==
    [files |-> r.total_files, messages |-> r.total_messages,
     sessions |-> Cardinality(r.all_session_ids), skipped |-> r.total_skipped]

\* mutant: reindex without its DELETE FROM indexed_files
ClearStore_keepFiles(store) ==
    [store EXCEPT !.mtags = {},
                  !.stags = {r \in @ : r.source # "auto"},
                  !.messages = <<>>,
                  !.sessions = NoRows]

\* mutant: DELETE FROM session_tags without the WHERE
ClearStore_allTags(store) ==
    [store EXCEPT !.mtags = {}, !.stags = {}, !.messages = <<>>,
                  !.sessions = NoRows, !.files = NoRows]

\* reindex: the five DELETEs
ClearStore(store) ==
    [store EXCEPT !.mtags = {},
                  !.stags = {r \in @ : r.source # "auto"},
                  !.messages = <<>>,
                  !.sessions = NoRows,
                  !.files = NoRows]

\* what the store holds once an open transaction is abandoned: close()
\* without commit() rolls the transaction back
Rollback(committed, working) == committed

\* mutant: every file of the loop is committed on its own
Visible_perFile(committed, working) == working

\* what other connections read while the indexer's transaction is open
Visible(committed, working) == committed

----------------------------------------------------------------------------
(* The state machine *)

Init ==
    /\ fs = [f \in Files |-> [lines |-> <<>>, size |-> 0]]
    /\ markers = ("a01" :> "w") @@ ("b02" :> NULL)
    /\ peer = NoPeer
    /\ db = EmptyStore
    /\ tx = EmptyStore
    /\ pc = "idle"
    /\ run = IdleRun
    /\ ret = [op |-> "none"]
    /\ budget = [writes |-> MaxWrites, runs |-> MaxRuns, tags |-> 0]

\* The transcript writer appends one complete line to a file.
\* (Writer steps are taken between indexer steps of different runs only: a
\* file is stat'ed and read in one step of the loop, so a write during a run
\* is a write before or after it.)
AppendLine(f, e) ==
    /\ pc = "idle"
    /\ budget.writes > 0
    /\ fs' = [fs EXCEPT ![f] = [lines |-> Append(@.lines, e),
                                size |-> @.size + LineLen(e)]]
    /\ budget' = [budget EXCEPT !.writes = @ - 1]
    /\ UNCHANGED <<markers, peer, db, tx, pc, run, ret>>

\* The file is rewritten to hold the single line e.
RewriteFile(f, e) ==
    /\ pc = "idle"
    /\ budget.writes > 0
    /\ fs[f].lines # <<>>
    /\ fs[f].lines # <<e>>
    /\ fs' = [fs EXCEPT ![f] = [lines |-> <<e>>, size |-> LineLen(e)]]
    /\ budget' = [budget EXCEPT !.writes = @ - 1]
    /\ UNCHANGED <<markers, peer, db, tx, pc, run, ret>>

\* index_all is called: connection opened, files collected
StartIndex ==
    /\ pc = "idle"
    /\ budget.runs > 0
    /\ pc' = "scan"
    /\ run' = NewRun("index")
    /\ ret' = [op |-> "running"]
    /\ budget' = [budget EXCEPT !.runs = @ - 1]
    /\ UNCHANGED <<fs, markers, peer, db, tx>>

\* one pass of the loop over jsonl_files
ScanFile ==
    /\ pc = "scan"
    /\ run.idx < Len(FileOrder)
    /\ LET f == FileOrder[run.idx + 1]
           res == IndexFile(tx, markers, run, f, fs[f])
       IN /\ tx' = res.store
          /\ run' = res.run
          /\ db' = Visible(db, res.store)
    /\ UNCHANGED <<fs, markers, peer, pc, ret, budget>>

\* session tagging, markers, conn.commit(), and index_all returns
FinishIndex ==
    /\ pc = "scan"
    /\ run.idx = Len(FileOrder)
    /\ LET done == FinishStore(tx, markers, run)
       IN /\ db' = done
          /\ tx' = done
    /\ ret' = IF run.mode = "index" THEN [op |-> "index", stats |-> Stats(run)] ELSE ret
    /\ pc' = IF run.mode = "reindex" THEN "markers" ELSE "idle"
    /\ run' = IF run.mode = "reindex" THEN run ELSE IdleRun
    /\ UNCHANGED <<fs, markers, peer, budget>>

\* reindex is called: the DELETEs are committed, then index_all is entered
ReindexClear ==
    /\ pc = "idle"
    /\ budget.runs > 0
    /\ db' = ClearStore(db)
    /\ tx' = ClearStore(db)
    /\ pc' = "scan"
    /\ run' = NewRun("reindex")
    /\ ret' = [op |-> "running"]
    /\ budget' = [budget EXCEPT !.runs = @ - 1]
    /\ UNCHANGED <<fs, markers, peer>>

\* reindex, after index_all returned: all markers applied and committed
ReindexMarkers ==
    /\ pc = "markers"
    /\ db' = _apply_all_session_markers(db, markers)
    /\ tx' = _apply_all_session_markers(db, markers)
    /\ pc' = "idle"
    /\ ret' = [op |-> "reindex", stats |-> Stats(run)]
    /\ run' = IdleRun
    /\ UNCHANGED <<fs, markers, peer, budget>>

\* The operation raises or the process dies before its commit: the
\* connection is closed with its transaction open.
Crash ==
    /\ pc \in {"scan", "markers"}
    /\ db' = Rollback(db, tx)
    /\ tx' = Rollback(db, tx)
    /\ pc' = "idle"
    /\ run' = IdleRun
    /\ ret' = [op |-> "failed"]
    /\ UNCHANGED <<fs, markers, peer, budget>>

\* the lists of tags a caller passes to tag_message and tag_session
MessageTagLists == {<<"insight">>, <<"wip", "wip">>}

SessionTagLists == {<<"has:planning">>, <<"wip", "wip">>}

RECURSIVE ManualRows(_, _)
ManualRows(subject, tags) ==
    IF tags = <<>> THEN <<>>
    ELSE <<[subject |-> subject, tag |-> Head(tags), source |-> "manual"]>>
         \o ManualRows(subject, Tail(tags))

MessageIds(store) == {store.messages[i].id : i \in 1..Len(store.messages)}

\* No write transaction of the indexer is open: a tag write takes the write
\* lock at once. (While one is open the tag write waits for the commit.)
NoWriter == tx = db

\* mutant: the rows are inserted and committed before the message is looked up
TagMessage_insertFirst(message_id, tags) ==
    /\ NoWriter
    /\ budget.tags > 0
    /\ budget' = [budget EXCEPT !.tags = @ - 1]
    /\ LET done == [db EXCEPT !.mtags =
                       InsertOrIgnoreMany(@, ManualRows(message_id, tags))]
       IN /\ db' = done
          /\ tx' = done
          /\ ret' = IF message_id \notin MessageIds(db)
                    THEN [op |-> "tag_message", error |-> "Message not found"]
                    ELSE [op |-> "tag_message", subject |-> message_id, asked |-> tags,
                          tags |-> {r \in done.mtags : r.subject = message_id}]
    /\ UNCHANGED <<fs, markers, peer, pc, run>>

\* tag_message(message_id, tags)
TagMessage(message_id, tags) ==
    /\ NoWriter
    /\ budget.tags > 0
    /\ budget' = [budget EXCEPT !.tags = @ - 1]
    /\ IF message_id \notin MessageIds(db)
       THEN /\ ret' = [op |-> "tag_message", error |-> "Message not found"]
            /\ UNCHANGED <<db, tx>>
       ELSE LET done == [db EXCEPT !.mtags =
                            InsertOrIgnoreMany(@, ManualRows(message_id, tags))]
            IN /\ db' = done
               /\ tx' = done
               /\ ret' = [op |-> "tag_message", subject |-> message_id, asked |-> tags,
                          tags |-> {r \in done.mtags : r.subject = message_id}]
    /\ UNCHANGED <<fs, markers, peer, pc, run>>

\* tag_session(session_id, tags)
TagSession(session_id, tags) ==
    /\ NoWriter
    /\ budget.tags > 0
    /\ budget' = [budget EXCEPT !.tags = @ - 1]
    /\ IF session_id \notin DOMAIN db.sessions
       THEN /\ ret' = [op |-> "tag_session", error |-> "Session not found"]
            /\ UNCHANGED <<db, tx>>
       ELSE LET done == [db EXCEPT !.stags =
                            InsertOrIgnoreMany(@, ManualRows(session_id, tags))]
            IN /\ db' = done
               /\ tx' = done
               /\ ret' = [op |-> "tag_session", subject |-> session_id, asked |-> tags,
                          tags |-> {r \in done.stags : r.subject = session_id}]
    /\ UNCHANGED <<fs, markers, peer, pc, run>>

SessionIds == {"a01", "b02"}

Next ==
    \/ \E f \in Files : \E e \in EntriesOf(f) : AppendLine(f, e)
    \/ \E f \in Files : \E e \in EntriesOf(f) : RewriteFile(f, e)
    \/ StartIndex
    \/ ScanFile
    \/ FinishIndex
    \/ ReindexClear
    \/ ReindexMarkers
    \/ Crash

\* the scanner and the transcript writer
Spec == Init /\ [][Next]_vars

InitTags ==
    /\ fs = [f \in Files |-> [lines |-> <<>>, size |-> 0]]
    /\ markers = ("a01" :> "w") @@ ("b02" :> NULL)
    /\ peer = NoPeer
    /\ db = EmptyStore
    /\ tx = EmptyStore
    /\ pc = "idle"
    /\ run = IdleRun
    /\ ret = [op |-> "none"]
    /\ budget = [writes |-> TagWrites, runs |-> TagRuns, tags |-> MaxTagOps]

NextTags ==
    \/ Next
    \/ \E id \in MessageIds(db) \cup {db.seq + 1} :
           \E tags \in MessageTagLists : TagMessage(id, tags)
    \/ \E sid \in SessionIds : \E tags \in SessionTagLists : TagSession(sid, tags)

\* the scanner, the transcript writer and the tag-writing tools
SpecTags == InitTags /\ [][NextTags]_vars

----------------------------------------------------------------------------
(* Properties *)

NFiles == Len(FileOrder)

IsPrefix(a, b) == Len(a) <= Len(b) /\ SubSeq(b, 1, Len(a)) = a

\* a message row without its id
StripId(row) ==
    [session_id |-> row.session_id, role |-> row.role, content |-> row.content,
     timestamp |-> row.timestamp, model |-> row.model]

\* the rows `after` holds beyond those of `before`, without their ids
AddedRows(before, after) ==
    [i \in 1..(Len(after.messages) - Len(before.messages)) |->
        StripId(after.messages[Len(before.messages) + i])]

\* the messages of the records of a sequence of complete lines, in order
RECURSIVE RecordsOf(_)
RecordsOf(lines) ==
    IF lines = <<>> THEN <<>>
    ELSE (IF Head(lines).type # "garbage" /\ Head(lines).sid # NULL
          THEN WithSession(_extract_from_entry(Head(lines)), Head(lines).sid)
          ELSE <<>>)
         \o RecordsOf(Tail(lines))

\* the step is one pass of index_all's loop
IsScanStep == pc = "scan" /\ pc' = "scan" /\ run'.idx = run.idx + 1

\* file f is tracked and has only been appended to since its row was written
GrewOnly(store, f) ==
    /\ f \in DOMAIN store.files
    /\ IsPrefix(store.files[f].glines, fs[f].lines)
    /\ Len(fs[f].lines) > Len(store.files[f].glines)

\* C1: when a tracked file has only grown since the scan that wrote its row,
\* the pass over it inserts exactly the messages of the appended lines, in
\* order: none of the earlier lines again, none of the appended ones missed.
C1_GrowthYieldsAppended ==
    [][(IsScanStep /\ GrewOnly(tx, FileOrder[run.idx + 1]))
         => LET f == FileOrder[run.idx + 1]
                appended == SubSeq(fs[f].lines, Len(tx.files[f].glines) + 1,
                                   Len(fs[f].lines))
            IN AddedRows(tx, tx') = RecordsOf(appended)]_vars

\* a pass over a grown file has just inserted messages of its appended lines
C1_Witness ==
    /\ pc = "scan"
    /\ run.mode = "index"
    /\ run.idx >= 1
    /\ LET f == FileOrder[run.idx]
       IN /\ f \in DOMAIN db.files
          /\ db.files[f].glines # <<>>
          /\ RecordsOf(db.files[f].glines) # <<>>
          /\ IsPrefix(db.files[f].glines, tx.files[f].glines)
          /\ Len(tx.messages) > Len(db.messages)

\* C2: while index_all runs the committed store does not change; it changes
\* only in the step that commits the whole run (every file of the loop
\* processed), and a run that fails or is killed leaves it as it was.
C2_RunIsAtomic ==
    [][pc = "scan"
         => \/ db' = db
            \/ /\ run.idx = NFiles
               /\ pc' \in {"idle", "markers"}
               /\ ret'.op # "failed"
               /\ db' = tx']_vars

\* a run that has processed a file holds uncommitted sessions, messages and
\* offsets
C2_Witness ==
    /\ pc = "scan"
    /\ run.idx >= 1
    /\ tx.messages # db.messages
    /\ tx.sessions # db.sessions
    /\ tx.files # db.files

\* every discovered file has a row whose size is the file's size
AllSameSize ==
    \A f \in Files : f \in DOMAIN db.files /\ db.files[f].size = fs[f].size

\* C3: an index_all over files none of which changed size commits the store
\* it found and returns every file as skipped, no file and no message
\* processed.
C3_RerunIsNoOp ==
    [][(pc = "scan" /\ run.idx = NFiles /\ pc' # "scan" /\ ret'.op = "index"
        /\ AllSameSize)
         => /\ db' = db
            /\ ret'.stats = [files |-> 0, messages |-> 0, sessions |-> 0,
                             skipped |-> NFiles]]_vars

\* an index_all over an already indexed, unchanged set of files has returned
C3_Witness ==
    /\ pc = "idle"
    /\ ret.op = "index"
    /\ ret.stats.skipped = NFiles
    /\ db.messages # <<>>
    /\ AllSameSize

MessagesOfSession(store, sid) ==
    {i \in 1..Len(store.messages) : store.messages[i].session_id = sid}

CountsMatch(store) ==
    \A sid \in DOMAIN store.sessions :
        store.sessions[sid].message_count = Cardinality(MessagesOfSession(store, sid))

\* C4: in every committed state each session's message_count is the number
\* of message rows of that session.
C4_CountMatchesRows == CountsMatch(db)

\* all files' records, in file order
AllRecords == RecordsOf(fs["f1"].lines) \o RecordsOf(fs["f2"].lines)

\* a committed state after the scan of a file that shrank: the store holds
\* more messages than the transcripts hold records
C4_Witness ==
    /\ pc = "idle"
    /\ ret.op = "index"
    /\ Len(db.messages) > Len(AllRecords)
    /\ \E sid \in DOMAIN db.sessions : db.sessions[sid].message_count >= 2

\* C5: the identifiers handed to auto_tag_messages for a batch are the
\* identifiers the store gave the rows of that batch, a contiguous
\* increasing range.
C5_TaggedIdsAreInsertedIds ==
    pc = "scan" =>
        /\ run.new_ids = run.assigned
        /\ \A i \in run.assigned : \A j \in run.assigned :
               \A k \in i..j : k \in run.assigned

\* C6: no step commits a store whose messages, sessions and file offsets
\* have been cleared while the rebuild from the transcripts is still to run.
C6_ReindexNotPartiallyVisible ==
    [][(db.messages # <<>> /\ db.files # NoRows)
         => ~(pc' = "scan" /\ db'.messages = <<>> /\ db'.sessions = NoRows
              /\ db'.files = NoRows)]_vars

\* the step belongs to a full reindex: its clear, its scan, its marker pass
InReindex ==
    \/ pc' = "scan" /\ run'.mode = "reindex"
    \/ pc \in {"scan", "markers"} /\ run.mode = "reindex"

\* C7: no step of a full reindex removes or changes a manual session tag
\* row: the rows of source manual that exist before the reindex exist, with
\* the same session id, tag and source, when it has completed.
C7_ManualSessionTagsSurviveReindex ==
    [][InReindex
         => \A r \in db.stags : r.source = "manual" => r \in db'.stags]_vars

\* the rebuild of a full reindex is committed, no tag was written since the
\* reindex began, and a manual session tag is in the store
C7_Witness ==
    /\ pc = "markers"
    /\ ret.op = "running"
    /\ db.messages # <<>>
    /\ \E r \in db.stags : r.source = "manual"

\* C8: no step of an incremental index_all removes a tag row or changes its
\* source, neither in the committed store nor on the run's own connection.
C8_IndexKeepsTagRows ==
    [][(pc = "scan" /\ run.mode = "index")
         => /\ db.mtags \subseteq db'.mtags
            /\ db.stags \subseteq db'.stags
            /\ ret'.op # "failed"
                 => tx.mtags \subseteq tx'.mtags /\ tx.stags \subseteq tx'.stags]_vars

\* an incremental run has committed whose session rule has:planning held for
\* a session that carried the tag as a manual one: the row is still manual
C8_Witness ==
    /\ pc = "idle"
    /\ ret.op = "index"
    /\ \E r \in db.stags :
          /\ r.source = "manual"
          /\ r.tag = "has:planning"
          /\ \E i \in 1..Len(db.messages) :
                db.messages[i].session_id = r.subject /\ db.messages[i].role = "plan"

UniqueTags(table) ==
    \A r1 \in table : \A r2 \in table :
        (r1.subject = r2.subject /\ r1.tag = r2.tag) => r1 = r2

\* the tag write of this step asks only for tags its subject already has
AsksExisting(table) ==
    /\ budget'.tags < budget.tags
    /\ "asked" \in DOMAIN ret'
    /\ \A i \in 1..Len(ret'.asked) :
          \E r \in table : r.subject = ret'.subject /\ r.tag = ret'.asked[i]

\* C9: each tag table holds at most one row per (subject, tag), whatever the
\* sources; a tag_message or tag_session whose tags the subject already has
\* returns normally and leaves the store as it was.
C9_OneRowPerSubjectTag ==
    /\ [](/\ UniqueTags(db.mtags) /\ UniqueTags(db.stags)
          /\ UniqueTags(tx.mtags) /\ UniqueTags(tx.stags))
    /\ [][(ret'.op = "tag_message" /\ AsksExisting(db.mtags)) => db' = db]_vars
    /\ [][(ret'.op = "tag_session" /\ AsksExisting(db.stags)) => db' = db]_vars

\* tag_session has just been called with a tag its session carries as an
\* automatic one
C9_Witness ==
    /\ ret.op = "tag_session"
    /\ "asked" \in DOMAIN ret
    /\ \E r \in db.stags :
          r.subject = ret.subject /\ r.tag = ret.asked[1] /\ r.source = "auto"

\* the lines the pass over file f reads whole, where that is all lines (a
\* file not tracked, or smaller than tracked) or the appended ones
Rescanned(store, f) ==
    f \notin DOMAIN store.files \/ fs[f].size < store.files[f].size

ScannedLines(store, f) ==
    IF Rescanned(store, f) THEN fs[f].lines
    ELSE IF GrewOnly(store, f)
         THEN SubSeq(fs[f].lines, Len(store.files[f].glines) + 1, Len(fs[f].lines))
         ELSE <<>>

\* the entry key behind a sessions column
EntryKey(column) == IF column = "git_branch" THEN "branch" ELSE column

Carries(e, sid, key) ==
    e.type # "garbage" /\ e.sid = sid /\ e[key] \notin {NULL, ""}

\* the value of `key` in the last (first) entry of session sid that has one
RECURSIVE LastOf(_, _, _)
LastOf(lines, sid, key) ==
    IF lines = <<>> THEN NULL
    ELSE IF Carries(lines[Len(lines)], sid, key) THEN lines[Len(lines)][key]
    ELSE LastOf(SubSeq(lines, 1, Len(lines) - 1), sid, key)

RECURSIVE FirstOf(_, _, _)
FirstOf(lines, sid, key) ==
    IF lines = <<>> THEN NULL
    ELSE IF Carries(Head(lines), sid, key) THEN Head(lines)[key]
    ELSE FirstOf(Tail(lines), sid, key)

Stored(store, sid, column) ==
    IF sid \in DOMAIN store.sessions THEN store.sessions[sid][column] ELSE NULL

ScanCovered(store, f) == Rescanned(store, f) \/ GrewOnly(store, f)

\* C10 as claimed: slug, git branch and working directory keep their stored
\* value; a scanned value is adopted only into an unset field, and then it is
\* the first one of the scan.
C10_FirstWriteWins ==
    [][(IsScanStep /\ ScanCovered(tx, FileOrder[run.idx + 1]))
         => LET lines == ScannedLines(tx, FileOrder[run.idx + 1])
            IN \A sid \in DOMAIN tx'.sessions :
                 \A column \in {"slug", "git_branch", "cwd"} :
                    tx'.sessions[sid][column] =
                        IF Stored(tx, sid, column) # NULL THEN Stored(tx, sid, column)
                        ELSE FirstOf(lines, sid, EntryKey(column))]_vars

\* C10 as amended: each of the three fields takes the value of the last
\* scanned entry of the session that carries one, and keeps its stored value
\* only when no scanned entry carries one.
C10_LastWriteWins ==
    [][(IsScanStep /\ ScanCovered(tx, FileOrder[run.idx + 1]))
         => LET lines == ScannedLines(tx, FileOrder[run.idx + 1])
            IN \A sid \in DOMAIN tx'.sessions :
                 \A column \in {"slug", "git_branch", "cwd"} :
                    tx'.sessions[sid][column] =
                        IF LastOf(lines, sid, EntryKey(column)) # NULL
                        THEN LastOf(lines, sid, EntryKey(column))
                        ELSE Stored(tx, sid, column)]_vars

\* a pass has replaced the stored slug of a known session
C10_Witness ==
    /\ pc = "scan"
    /\ \E sid \in DOMAIN db.sessions \cap DOMAIN tx.sessions :
          /\ db.sessions[sid].slug # NULL
          /\ tx.sessions[sid].slug # db.sessions[sid].slug


----------------------------------------------------------------------------
(* Merging the metadata of several scans into one session, in any order *)

\* entries of one session: a message with a late timestamp, a message with
\* no timestamp, a skipped entry that still carries a timestamp
MergeEntries ==
    {[U1 EXCEPT !.ts = 3], [U1 EXCEPT !.ts = 0], [S2 EXCEPT !.sid = "a01", !.ts = 1]}

\* what one scan reads of the session: one or two entries
Deltas ==
    {<<e>> : e \in MergeEntries} \cup {<<e1, e2>> : e1 \in MergeEntries, e2 \in MergeEntries}

InitMerge ==
    /\ fs = [f \in Files |-> [lines |-> <<>>, size |-> 0]]
    /\ markers = ("a01" :> NULL) @@ ("b02" :> NULL)
    /\ peer = NoPeer
    /\ db = EmptyStore
    /\ tx = EmptyStore
    /\ pc = "merge"
    /\ \E deltas \in [1..MaxDeltas -> Deltas] :
          run = [mode |-> "merge", deltas |-> deltas, todo |-> 1..MaxDeltas,
                 order |-> <<>>]
    /\ ret = [op |-> "none"]
    /\ budget = [writes |-> 0, runs |-> 0, tags |-> 0]

\* the i-th scan's entries are parsed and its session metadata upserted
MergeDelta(i) ==
    /\ pc = "merge"
    /\ i \in run.todo
    /\ LET d == run.deltas[i]
           parsed == _parse_file("f1", [lines |-> d, size |-> ByteSize(d)], 0)
       IN tx' = UpsertAll(tx, parsed.session_metas, DOMAIN parsed.session_metas)
    /\ run' = [run EXCEPT !.todo = @ \ {i}, !.order = Append(@, i)]
    /\ UNCHANGED <<fs, markers, peer, db, pc, ret, budget>>

NextMerge == \E i \in 1..MaxDeltas : MergeDelta(i)

SpecMerge == InitMerge /\ [][NextMerge]_vars

\* the entries merged so far, as (scan, position) pairs
MergedEntries ==
    {p \in (1..MaxDeltas) \X (1..2) :
        p[1] \notin run.todo /\ p[2] <= Len(run.deltas[p[1]])}

MergedStamps == {run.deltas[p[1]][p[2]].ts : p \in MergedEntries} \ {0}

SetMin(S) == CHOOSE x \in S : \A y \in S : x <= y

SetMax(S) == CHOOSE x \in S : \A y \in S : x >= y

\* C11: whatever the order in which the scans' metadata is merged into the
\* session, first_timestamp is the least timestamp merged, last_timestamp
\* the greatest, and message_count the number of messages merged.
C11_MergeOrderIndependent ==
    (pc = "merge" /\ run.order # <<>>)
      => /\ DOMAIN tx.sessions = {"a01"}
         /\ tx.sessions["a01"].first_timestamp =
               IF MergedStamps = {} THEN 0 ELSE SetMin(MergedStamps)
         /\ tx.sessions["a01"].last_timestamp =
               IF MergedStamps = {} THEN 0 ELSE SetMax(MergedStamps)
         /\ tx.sessions["a01"].message_count =
               Cardinality({p \in MergedEntries : run.deltas[p[1]][p[2]].type = "user"})

\* three scans were merged out of order, the last one merged carrying
\* neither the least nor the greatest timestamp of the session
C11_Witness ==
    /\ pc = "merge"
    /\ run.order = <<3, 1, 2>>
    /\ run.deltas[2] = <<[U1 EXCEPT !.ts = 0]>>
    /\ tx.sessions["a01"].first_timestamp = 1
    /\ tx.sessions["a01"].last_timestamp = 3
    /\ tx.sessions["a01"].message_count = 2


----------------------------------------------------------------------------

\* C12: in every committed state each tracked file has byte_offset <= size;
\* a committed byte_offset goes down only when the scan found the file
\* smaller than its stored size, and a pass that finds a file smaller
\* inserts the records of the whole file (it parses from byte 0).
C12_OffsetBoundedAndForward ==
    /\ [](\A f \in DOMAIN db.files : db.files[f].byte_offset <= db.files[f].size)
    /\ [][\A f \in DOMAIN db.files \cap DOMAIN db'.files :
             db'.files[f].byte_offset < db.files[f].byte_offset
               => fs[f].size < db.files[f].size]_vars
    /\ [][(IsScanStep /\ FileOrder[run.idx + 1] \in DOMAIN tx.files)
            => LET f == FileOrder[run.idx + 1]
               IN /\ tx'.files[f].byte_offset < tx.files[f].byte_offset
                       => fs[f].size < tx.files[f].size
                  /\ fs[f].size < tx.files[f].size
                       => AddedRows(tx, tx') = RecordsOf(fs[f].lines)]_vars

\* an incremental run has found a tracked file smaller and lowered its offset
C12_Witness ==
    /\ pc = "scan"
    /\ run.mode = "index"
    /\ \E f \in DOMAIN db.files \cap DOMAIN tx.files :
          /\ tx.files[f].byte_offset < db.files[f].byte_offset
          /\ tx.files[f].byte_offset = fs[f].size
          /\ fs[f].size > 0


----------------------------------------------------------------------------

\* C13: the message rows are in strictly increasing id order, and a pass
\* that inserts rows gives each an id greater than every id given to a row
\* before, the rows a full reindex has deleted included.
C13_IdsIncreaseNeverReused ==
    /\ [](\A i \in 1..Len(tx.messages) : \A j \in 1..Len(tx.messages) :
             i < j => tx.messages[i].id < tx.messages[j].id)
    /\ [][IsScanStep
            => \A id \in AddedIds(tx, tx') : \A old \in tx.issued : id > old]_vars

\* the rebuild of a full reindex has inserted rows after rows with smaller
\* ids were deleted
C13_Witness ==
    /\ pc = "scan"
    /\ run.mode = "reindex"
    /\ tx.messages # <<>>
    /\ \E old \in tx.issued : \A i \in 1..Len(tx.messages) : tx.messages[i].id > old


----------------------------------------------------------------------------

\* how many leading lines two versions of a file have in common
RECURSIVE CommonPrefixLen(_, _)
CommonPrefixLen(a, b) ==
    IF a = <<>> \/ b = <<>> \/ Head(a) # Head(b) THEN 0
    ELSE 1 + CommonPrefixLen(Tail(a), Tail(b))

\* C14: a pass of an incremental scan over a tracked file inserts rows only
\* for lines that the scan which wrote the file's row had not read: the
\* leading lines the file still shares with what was read then are not
\* emitted a second time.
C14_NoRecordEmittedTwice ==
    [][(IsScanStep /\ run.mode = "index" /\ FileOrder[run.idx + 1] \in DOMAIN tx.files)
         => LET f == FileOrder[run.idx + 1]
                lines == fs[f].lines
                kept == CommonPrefixLen(tx.files[f].glines, lines)
            IN \E k \in kept..Len(lines) :
                  AddedRows(tx, tx') = RecordsOf(SubSeq(lines, k + 1, Len(lines)))]_vars


----------------------------------------------------------------------------
(* server.py: the query tools *)

\* the rows of the window on either side of around_timestamp
WINDOW == 10

\* the ways ORDER BY k ASC may return the rows of P (a set of [k, row]):
\* rows with equal keys come in any order
RECURSIVE SortedSeqs(_)
SortedSeqs(P) ==
    IF P = {} THEN {<<>>}
    ELSE LET least == {p \in P : \A q \in P : p.k <= q.k}
         IN UNION {{<<p.row>> \o t : t \in SortedSeqs(P \ {p})} : p \in least}

\* LIMIT n: a negative n is no limit
Limit(rows, n) ==
    IF n < 0 \/ n >= Len(rows) THEN rows ELSE SubSeq(rows, 1, n)

Reversed(rows) == [i \in 1..Len(rows) |-> rows[Len(rows) + 1 - i]]

SessionRows(store) == {store.sessions[s] : s \in DOMAIN store.sessions}

MessageRows(store) == {store.messages[i] : i \in 1..Len(store.messages)}

\* mutant: the slug lookup without its ORDER BY: the rows in any order
ChainOf_unordered(store, slug) ==
    SortedSeqs({[k |-> 0, row |-> s] : s \in {r \in SessionRows(store) : r.slug = slug}})

\* SELECT * FROM sessions WHERE slug = ? ORDER BY first_timestamp ASC
ChainOf(store, slug) ==
    SortedSeqs({[k |-> s.first_timestamp, row |-> s] :
                   s \in {r \in SessionRows(store) : r.slug = slug}})

\* the sessions an identifier stands for: the session with that id, else the
\* chain with that slug; no list at all when there is neither
ResolveSessions(store, session_id_or_slug) ==
    IF session_id_or_slug \in DOMAIN store.sessions
    THEN {<<store.sessions[session_id_or_slug]>>}
    ELSE ChainOf(store, session_id_or_slug)

\* mutant: the rows up to the timestamp taken oldest first
FetchMessages_oldestFirst(store, session_ids, roles, around_timestamp, limit) ==
    LET rows == {r \in MessageRows(store) :
                    /\ r.session_id \in session_ids
                    /\ roles = <<>> \/ \E i \in 1..Len(roles) : r.role = roles[i]}
    IN IF around_timestamp # 0
       THEN {Limit(b, WINDOW) \o Limit(a, WINDOW) :
                b \in SortedSeqs({[k |-> r.timestamp, row |-> r] :
                                     r \in {x \in rows : x.timestamp <= around_timestamp}}),
                a \in SortedSeqs({[k |-> r.timestamp, row |-> r] :
                                     r \in {x \in rows : x.timestamp > around_timestamp}})}
       ELSE {Limit(s, limit) :
                s \in SortedSeqs({[k |-> r.timestamp, row |-> r] : r \in rows})}

\* the messages of the sessions, filtered by role, as a page of `limit`
\* rows or as the window around a timestamp (0: none given)
FetchMessages(store, session_ids, roles, around_timestamp, limit) ==
    LET rows == {r \in MessageRows(store) :
                    /\ r.session_id \in session_ids
                    /\ roles = <<>> \/ \E i \in 1..Len(roles) : r.role = roles[i]}
    IN IF around_timestamp # 0
       THEN {Reversed(Limit(b, WINDOW)) \o Limit(a, WINDOW) :
                b \in SortedSeqs({[k |-> 0 - r.timestamp, row |-> r] :
                                     r \in {x \in rows : x.timestamp <= around_timestamp}}),
                a \in SortedSeqs({[k |-> r.timestamp, row |-> r] :
                                     r \in {x \in rows : x.timestamp > around_timestamp}})}
       ELSE {Limit(s, limit) :
                s \in SortedSeqs({[k |-> r.timestamp, row |-> r] : r \in rows})}

\* the results get_conversation may return
get_conversation(store, session_id_or_slug, around_timestamp, roles, limit) ==
    LET found == ResolveSessions(store, session_id_or_slug)
    IN IF found = {} \/ found = {<<>>} THEN {[error |-> "Session not found"]}
       ELSE {[sessions |-> sessions, messages |-> messages,
              message_count |-> Len(messages)] :
                sessions \in found,
                messages \in UNION {FetchMessages(store,
                                        {ss[i].session_id : i \in 1..Len(ss)},
                                        roles, around_timestamp, limit) : ss \in found}}

\* entries of four sessions, three of which come to share the slug "a"
\* (until QE gives the first of them the slug "b"); the fourth has the id "a"
QA == U1

QB == [P2 EXCEPT !.slug = "a"]

QC == [U1 EXCEPT !.sid = "c03", !.ts = 2]

QD == [U1 EXCEPT !.sid = "a", !.slug = "z", !.ts = 2]

QE == [U1 EXCEPT !.slug = "b", !.ts = 3]

\* what a writer may add to each file between two calls of the server
QueryBatchesOf(f) ==
    IF f = "f1" THEN {<<QA>>, <<QA, QE>>, <<QD, QA>>}
    ELSE {<<QB, QC>>, <<QC, S2>>, <<S2, QB, QC>>}

Identifiers == {"a01", "a", "b", "zz"}

RoleFilters == {<<>>, <<"user">>}

Limits == {-1, 0, 1, 200}

InitQuery ==
    /\ fs = [f \in Files |-> [lines |-> <<>>, size |-> 0]]
    /\ markers = ("a01" :> NULL) @@ ("b02" :> NULL)
    /\ peer = NoPeer
    /\ db = EmptyStore
    /\ tx = EmptyStore
    /\ pc = "idle"
    /\ run = IdleRun
    /\ ret = [op |-> "none"]
    /\ budget = [writes |-> QueryWrites, runs |-> QueryRuns, tags |-> 0]

\* The transcript writer appends complete lines to a file.
AppendBatch(f, batch) ==
    /\ pc = "idle"
    /\ budget.writes > 0
    /\ fs' = [fs EXCEPT ![f] = [lines |-> @.lines \o batch,
                                size |-> @.size + ByteSize(batch)]]
    /\ budget' = [budget EXCEPT !.writes = @ - 1]
    /\ UNCHANGED <<markers, peer, db, tx, pc, run, ret>>

\* the tool get_conversation, called on what is committed
GetConversation(session_id_or_slug, around_timestamp, roles, limit) ==
    /\ pc = "idle"
    /\ \E result \in get_conversation(db, session_id_or_slug, around_timestamp, roles, limit) :
          ret' = [op |-> "get_conversation", id |-> session_id_or_slug,
                  around |-> around_timestamp, roles |-> roles, limit |-> limit,
                  result |-> result]
    /\ pc' = "answered"
    /\ UNCHANGED <<fs, markers, peer, db, tx, run, budget>>

\* the caller has the answer; the server waits for the next call
Return ==
    /\ pc = "answered"
    /\ pc' = "idle"
    /\ ret' = [op |-> "none"]
    /\ UNCHANGED <<fs, markers, peer, db, tx, run, budget>>

NextQuery ==
    \/ \E f \in Files : \E batch \in QueryBatchesOf(f) : AppendBatch(f, batch)
    \/ StartIndex
    \/ ScanFile
    \/ FinishIndex
    \/ \E id \in Identifiers : \E around \in {0, 2} : \E roles \in RoleFilters :
          \E limit \in Limits : GetConversation(id, around, roles, limit)
    \/ Return

\* the scanner, the transcript writer and the query tools
SpecQuery == InitQuery /\ [][NextQuery]_vars

NonDecreasing(rows, field) ==
    \A i \in 1..Len(rows) : \A j \in 1..Len(rows) :
        i < j => rows[i][field] <= rows[j][field]

SeqRange(rows) == {rows[i] : i \in 1..Len(rows)}

IsConversation == ret.op = "get_conversation" /\ "sessions" \in DOMAIN ret.result

\* C15: get_conversation on an identifier that is no session id but is a
\* slug returns each session with that slug once, by ascending
\* first_timestamp, and messages of those sessions only, by non-decreasing
\* timestamp; on a session id it returns that session alone.
C15_SlugResolvesToOrderedChain ==
    IsConversation =>
        LET sessions == ret.result.sessions
            messages == ret.result.messages
        IN /\ ret.id \in DOMAIN db.sessions => sessions = <<db.sessions[ret.id]>>
           /\ ret.id \notin DOMAIN db.sessions =>
                 /\ SeqRange(sessions) = {s \in SessionRows(db) : s.slug = ret.id}
                 /\ Len(sessions) = Cardinality(SeqRange(sessions))
                 /\ NonDecreasing(sessions, "first_timestamp")
           /\ \A i \in 1..Len(messages) :
                 /\ messages[i] \in MessageRows(db)
                 /\ \E j \in 1..Len(sessions) :
                       messages[i].session_id = sessions[j].session_id
           /\ NonDecreasing(messages, "timestamp")

\* a slug lookup returned a chain of three sessions with different first
\* timestamps and messages of more than one of them
C15_Witness ==
    /\ IsConversation
    /\ ret.id = "a"
    /\ "a" \notin DOMAIN db.sessions
    /\ Len(ret.result.sessions) = 3
    /\ ret.result.sessions[1].first_timestamp < ret.result.sessions[3].first_timestamp
    /\ \E i \in 1..Len(ret.result.messages) : \E j \in 1..Len(ret.result.messages) :
          ret.result.messages[i].session_id # ret.result.messages[j].session_id


----------------------------------------------------------------------------
(* The session-range syntax: "1,3-5" names positions 1, 3, 4, 5 of a chain *)

DigitChars == <<"0", "1", "2", "3", "4", "5", "6", "7", "8", "9">>

IsDigit(c) == \E d \in 1..10 : DigitChars[d] = c

DigitValue(c) == (CHOOSE d \in 1..10 : DigitChars[d] = c) - 1

\* a token made of digits only, and at least one
Numeric(t) == t # <<>> /\ \A i \in 1..Len(t) : IsDigit(t[i])

RECURSIVE Decimal(_)
Decimal(t) ==
    IF t = <<>> THEN 0
    ELSE 10 * Decimal(SubSeq(t, 1, Len(t) - 1)) + DigitValue(t[Len(t)])

\* the comma-separated tokens of a string; "" has one empty token
RECURSIVE Split(_)
Split(s) ==
    IF s = <<>> THEN << <<>> >>
    ELSE LET rest == Split(Tail(s))
         IN IF Head(s) = "," THEN << <<>> >> \o rest
            ELSE << <<Head(s)>> \o Head(rest) >> \o Tail(rest)

\* where the first hyphen of a token is (0: nowhere)
FirstHyphen(t) ==
    IF \E i \in 1..Len(t) : t[i] = "-"
    THEN CHOOSE i \in 1..Len(t) : t[i] = "-" /\ \A j \in 1..(i - 1) : t[j] # "-"
    ELSE 0

\* mutant: a range with low > high is taken as the empty range
ParseToken_emptyReversed(t, total) ==
    LET h == FirstHyphen(t)
        lo == SubSeq(t, 1, h - 1)
        hi == SubSeq(t, h + 1, Len(t))
    IN IF h = 0
       THEN IF ~Numeric(t) THEN [error |-> "invalid"]
            ELSE IF Decimal(t) < 1 \/ Decimal(t) > total THEN [error |-> "out of range"]
            ELSE [positions |-> {Decimal(t)}]
       ELSE IF ~Numeric(lo) \/ ~Numeric(hi) THEN [error |-> "invalid"]
            ELSE IF Decimal(lo) > Decimal(hi) THEN [positions |-> {}]
            ELSE IF Decimal(lo) < 1 \/ Decimal(hi) > total THEN [error |-> "out of range"]
            ELSE [positions |-> Decimal(lo)..Decimal(hi)]

\* one token: the positions it names, or the error it is
ParseToken(t, total) ==
    LET h == FirstHyphen(t)
        lo == SubSeq(t, 1, h - 1)
        hi == SubSeq(t, h + 1, Len(t))
    IN IF h = 0
       THEN IF ~Numeric(t) THEN [error |-> "invalid"]
            ELSE IF Decimal(t) < 1 \/ Decimal(t) > total THEN [error |-> "out of range"]
            ELSE [positions |-> {Decimal(t)}]
       ELSE IF ~Numeric(lo) \/ ~Numeric(hi) THEN [error |-> "invalid"]
            ELSE IF Decimal(lo) > Decimal(hi) THEN [error |-> "invalid"]
            ELSE IF Decimal(lo) < 1 \/ Decimal(hi) > total THEN [error |-> "out of range"]
            ELSE [positions |-> Decimal(lo)..Decimal(hi)]

\* the tokens in turn; the first error ends the parse
RECURSIVE ParseTokens(_, _, _)
ParseTokens(tokens, total, positions) ==
    IF tokens = <<>> THEN [positions |-> positions]
    ELSE LET one == ParseToken(Head(tokens), total)
         IN IF "error" \in DOMAIN one THEN one
            ELSE ParseTokens(Tail(tokens), total, positions \cup one.positions)

\* mutant: the indices in the order the tokens name them, repeats kept
RECURSIVE IndexList_inputOrder(_, _)
IndexList_inputOrder(tokens, total) ==
    IF tokens = <<>> THEN <<>>
    ELSE LET ps == ParseToken(Head(tokens), total).positions
         IN [i \in 1..Cardinality(ps) |-> (CHOOSE p \in ps : Cardinality({q \in ps : q < p}) = i - 1) - 1]
            \o IndexList_inputOrder(Tail(tokens), total)

\* the 0-based indices of the positions, deduplicated, ascending
IndexList(tokens, total) ==
    LET ps == ParseTokens(tokens, total, {}).positions
    IN [i \in 1..Cardinality(ps) |->
           (CHOOSE p \in ps : Cardinality({q \in ps : q < p}) = i - 1) - 1]

_parse_session_range(session, total) ==
    LET parsed == ParseTokens(Split(session), total, {})
    IN IF "error" \in DOMAIN parsed THEN parsed
       ELSE [indices |-> IndexList(Split(session), total)]

RangeChars == {"0", "1", "2", "3", "-", ",", "x"}

RangeStrings == UNION {[1..n -> RangeChars] : n \in 0..MaxRangeLen}

\* a token of a well-formed string: a position, or a range low-high
RangeTokens(total) ==
    {[lo |-> p, hi |-> p, hyphen |-> FALSE] : p \in 1..total}
      \cup {[lo |-> r[1], hi |-> r[2], hyphen |-> TRUE] :
               r \in {x \in (1..total) \X (1..total) : x[1] <= x[2]}}

FormatToken(t) ==
    IF t.hyphen THEN <<DigitChars[t.lo + 1], "-", DigitChars[t.hi + 1]>>
    ELSE <<DigitChars[t.lo + 1]>>

RECURSIVE FormatRange(_)
FormatRange(toks) ==
    IF Len(toks) = 1 THEN FormatToken(toks[1])
    ELSE FormatToken(Head(toks)) \o <<",">> \o FormatRange(Tail(toks))

\* a range string to parse against a chain of `total` sessions: any string
\* of the alphabet (toks empty), or the text of a token list (toks)
InitRange ==
    /\ fs = [f \in Files |-> [lines |-> <<>>, size |-> 0]]
    /\ markers = ("a01" :> NULL) @@ ("b02" :> NULL)
    /\ peer = NoPeer
    /\ db = EmptyStore
    /\ tx = EmptyStore
    /\ pc = "parse"
    /\ \E total \in 1..MaxChain :
          \/ \E s \in RangeStrings :
                run = [mode |-> "range", session |-> s, total |-> total, toks |-> <<>>]
          \/ \E n \in 1..MaxTokens : \E toks \in [1..n -> RangeTokens(total)] :
                run = [mode |-> "range", session |-> FormatRange(toks),
                       total |-> total, toks |-> toks]
    /\ ret = [op |-> "none"]
    /\ budget = [writes |-> 0, runs |-> 0, tags |-> 0]

ParseRange ==
    /\ pc = "parse"
    /\ pc' = "parsed"
    /\ ret' = [op |-> "_parse_session_range",
               result |-> _parse_session_range(run.session, run.total)]
    /\ UNCHANGED <<fs, markers, peer, db, tx, run, budget>>

NextRange == ParseRange

SpecRange == InitRange /\ [][NextRange]_vars

\* the positions a token list names
Named(toks) == UNION {toks[i].lo..toks[i].hi : i \in 1..Len(toks)}

\* C17: the parse of the text of a list of tokens, each a position or a
\* range low-high within 1..chain length, is the list of position - 1 for
\* exactly the positions the tokens name, ascending and without repeats,
\* whatever the order of the tokens.
C17_RangeIsSortedDeduplicated ==
    (pc = "parsed" /\ run.toks # <<>>)
      => /\ "indices" \in DOMAIN ret.result
         /\ SeqRange(ret.result.indices) = {p - 1 : p \in Named(run.toks)}
         /\ \A i \in 1..Len(ret.result.indices) : \A j \in 1..Len(ret.result.indices) :
               i < j => ret.result.indices[i] < ret.result.indices[j]

\* "3,1-2" over a chain of three was parsed: tokens out of order
C17_Witness ==
    /\ pc = "parsed"
    /\ run.session = <<"3", ",", "1", "-", "2">>
    /\ run.total = 3
    /\ ret.result = [indices |-> <<0, 1, 2>>]


----------------------------------------------------------------------------

\* the tokens of the parsed string, as (first, last) character positions:
\* the maximal stretches without a comma, the empty ones included
TokenSpans ==
    LET s == run.session
    IN {sp \in (1..(Len(s) + 1)) \X (0..Len(s)) :
           /\ sp[2] >= sp[1] - 1
           /\ sp[1] = 1 \/ s[sp[1] - 1] = ","
           /\ sp[2] = Len(s) \/ s[sp[2] + 1] = ","
           /\ \A k \in sp[1]..sp[2] : s[k] # ","}

TokenAt(sp) == SubSeq(run.session, sp[1], sp[2])

\* low-high with both sides numeric
IsRangeToken(t) ==
    \E h \in 1..Len(t) :
        t[h] = "-" /\ Numeric(SubSeq(t, 1, h - 1)) /\ Numeric(SubSeq(t, h + 1, Len(t)))

Low(t) == Decimal(SubSeq(t, 1, (CHOOSE h \in 1..Len(t) : t[h] = "-") - 1))

High(t) == Decimal(SubSeq(t, (CHOOSE h \in 1..Len(t) : t[h] = "-") + 1, Len(t)))

\* empty, non-numeric, or a range with low > high
Malformed(t) ==
    \/ ~Numeric(t) /\ ~IsRangeToken(t)
    \/ IsRangeToken(t) /\ Low(t) > High(t)

\* a position below 1 or above the chain length
OutOfRange(t) ==
    \/ Numeric(t) /\ (Decimal(t) < 1 \/ Decimal(t) > run.total)
    \/ IsRangeToken(t) /\ Low(t) <= High(t) /\ (Low(t) < 1 \/ High(t) > run.total)

\* C18: a range string with a token that is empty, non-numeric or a range
\* with low > high, or with a position below 1 or above the chain length,
\* yields an error and no index list: the out-of-range error when positions
\* out of range are its only fault, the invalid error when malformed tokens
\* are its only fault.
C18_BadRangeIsRejected ==
    pc = "parsed" =>
        LET bad == {sp \in TokenSpans : Malformed(TokenAt(sp))}
            out == {sp \in TokenSpans : OutOfRange(TokenAt(sp))}
        IN /\ (bad # {} \/ out # {})
                => "error" \in DOMAIN ret.result /\ "indices" \notin DOMAIN ret.result
           /\ (bad = {} /\ out # {}) => ret.result = [error |-> "out of range"]
           /\ (bad # {} /\ out = {}) => ret.result = [error |-> "invalid"]
           /\ (bad = {} /\ out = {}) => "indices" \in DOMAIN ret.result

\* "2-1" over a chain of three was parsed and rejected as invalid
C18_Witness ==
    /\ pc = "parsed"
    /\ run.session = <<"2", "-", "1">>
    /\ run.total = 3
    /\ ret.result = [error |-> "invalid"]


----------------------------------------------------------------------------
(* get_conversation with a session-range selector *)

\* mutant: the selector is applied to the messages' sessions only after the
\* messages of the whole chain were fetched and cut to the page
Narrowed_afterFetch(store, chain, indices, roles, around_timestamp, limit) ==
    LET sessions == [i \in 1..Len(indices) |-> chain[indices[i] + 1]]
    IN {[sessions |-> sessions, messages |-> messages,
         message_count |-> Len(messages)] :
           messages \in FetchMessages(store, {chain[i].session_id : i \in 1..Len(chain)},
                                      roles, around_timestamp, limit)}

\* the chain narrowed to the sessions at the selected indices, and their
\* messages
Narrowed(store, chain, indices, roles, around_timestamp, limit) ==
    LET sessions == [i \in 1..Len(indices) |-> chain[indices[i] + 1]]
    IN {[sessions |-> sessions, messages |-> messages,
         message_count |-> Len(messages)] :
           messages \in FetchMessages(store, {sessions[i].session_id : i \in 1..Len(sessions)},
                                      roles, around_timestamp, limit)}

\* the results get_conversation may return when a selector is given
get_conversation_session(store, session_id_or_slug, session, around_timestamp, roles, limit) ==
    IF session_id_or_slug \in DOMAIN store.sessions
    THEN get_conversation(store, session_id_or_slug, around_timestamp, roles, limit)
    ELSE LET chains == ChainOf(store, session_id_or_slug)
         IN IF chains = {<<>>} THEN {[error |-> "Session not found"]}
            ELSE UNION {LET parsed == _parse_session_range(session, Len(chain))
                        IN IF "error" \in DOMAIN parsed THEN {parsed}
                           ELSE Narrowed(store, chain, parsed.indices, roles,
                                         around_timestamp, limit) :
                        chain \in chains}

\* selectors a caller may give, with the positions each is meant to name
Selectors ==
    {[text |-> <<"2">>, positions |-> {2}],
     [text |-> <<"3", ",", "1">>, positions |-> {1, 3}],
     [text |-> <<"1", "-", "2">>, positions |-> {1, 2}],
     [text |-> <<"4">>, positions |-> {4}]}

GetConversationSession(session_id_or_slug, selector, around_timestamp) ==
    /\ pc = "idle"
    /\ \E result \in get_conversation_session(db, session_id_or_slug, selector.text,
                                              around_timestamp, <<>>, 200) :
          ret' = [op |-> "get_conversation_session", id |-> session_id_or_slug,
                  selector |-> selector, around |-> around_timestamp,
                  result |-> result]
    /\ pc' = "answered"
    /\ UNCHANGED <<fs, markers, peer, db, tx, run, budget>>

NextSelect ==
    \/ \E f \in Files : \E batch \in QueryBatchesOf(f) : AppendBatch(f, batch)
    \/ StartIndex
    \/ ScanFile
    \/ FinishIndex
    \/ \E id \in Identifiers : \E selector \in Selectors : \E around \in {0, 2} :
          GetConversationSession(id, selector, around)
    \/ Return

\* the scanner, the transcript writer and get_conversation with a selector
SpecSelect == InitQuery /\ [][NextSelect]_vars

IsSelection == ret.op = "get_conversation_session"

\* the sessions of `chain` at the positions, by ascending position
Picked(chain, positions) ==
    [i \in 1..Cardinality(positions) |->
        chain[CHOOSE p \in positions : Cardinality({q \in positions : q < p}) = i - 1]]

\* C16: on a slug, get_conversation with a selector returns the sessions at
\* the selected 1-based positions of the chain (by ascending
\* first_timestamp) and messages of those sessions only, in the page mode
\* and in the around_timestamp mode; a selector naming a position beyond the
\* chain yields an error; on a session id the selector changes nothing.
C16_SelectorNarrowsChain ==
    IsSelection =>
        LET n == Cardinality({s \in SessionRows(db) : s.slug = ret.id})
            positions == ret.selector.positions
        IN /\ ret.id \in DOMAIN db.sessions
                => ret.result \in get_conversation(db, ret.id, ret.around, <<>>, 200)
           /\ (ret.id \notin DOMAIN db.sessions /\ n > 0 /\ positions \subseteq 1..n)
                => /\ "sessions" \in DOMAIN ret.result
                   /\ \E chain \in ChainOf(db, ret.id) :
                         ret.result.sessions = Picked(chain, positions)
                   /\ \A i \in 1..Len(ret.result.messages) :
                         /\ ret.result.messages[i] \in MessageRows(db)
                         /\ \E j \in 1..Len(ret.result.sessions) :
                               ret.result.messages[i].session_id
                                 = ret.result.sessions[j].session_id
           /\ (ret.id \notin DOMAIN db.sessions /\ n > 0 /\ ~(positions \subseteq 1..n))
                => "error" \in DOMAIN ret.result

\* "3,1" on a chain of three returned its first and last session and a
\* message, while the session left out has messages too
C16_Witness ==
    /\ IsSelection
    /\ ret.id = "a"
    /\ ret.selector.positions = {1, 3}
    /\ "sessions" \in DOMAIN ret.result
    /\ Len(ret.result.sessions) = 2
    /\ ret.result.messages # <<>>
    /\ \E m \in MessageRows(db) :
          /\ \A j \in 1..2 : m.session_id # ret.result.sessions[j].session_id
          /\ \E s \in SessionRows(db) : s.session_id = m.session_id /\ s.slug = "a"


----------------------------------------------------------------------------
(* server.py: list_sessions *)

\* s.project_dir LIKE '%project%', for a project without wildcards
Contains(text, part) ==
    \E i \in 1..(Len(text) - Len(part) + 1) :
        SubSeq(text, i, i + Len(part) - 1) = part

\* the WHERE clauses; project NULL, dates 0 and tags <<>> are filters not given
SessionPasses(store, s, project, date_from, date_to, tags) ==
    /\ project # NULL => (s.project_dir # NULL /\ Contains(s.project_dir, project))
    /\ date_from # 0 => (s.last_timestamp # 0 /\ s.last_timestamp >= date_from)
    /\ date_to # 0 => (s.first_timestamp # 0 /\ s.first_timestamp <= date_to)
    /\ \A i \in 1..Len(tags) :
          \E st \in store.stags : st.subject = s.session_id /\ st.tag = tags[i]

\* the results list_sessions may return: most recent activity first
list_sessions(store, limit, project, date_from, date_to, tags) ==
    {Limit(rows, limit) :
        rows \in SortedSeqs({[k |-> 0 - s.last_timestamp, row |-> s] :
                    s \in {r \in SessionRows(store) :
                             SessionPasses(store, r, project, date_from, date_to, tags)}})}

WithNumber(s, n) == ("session_number" :> n) @@ s

\* the rows of a numbered list that pass the filters, in order
RECURSIVE KeepPassing(_, _, _, _, _, _)
KeepPassing(store, rows, project, date_from, date_to, tags) ==
    IF rows = <<>> THEN <<>>
    ELSE (IF SessionPasses(store, Head(rows), project, date_from, date_to, tags)
          THEN <<Head(rows)>> ELSE <<>>)
         \o KeepPassing(store, Tail(rows), project, date_from, date_to, tags)

\* mutant: the sessions are numbered after the filters were applied
NumberedChain_afterFilter(store, chain, project, date_from, date_to, tags) ==
    LET kept == KeepPassing(store, chain, project, date_from, date_to, tags)
    IN [i \in 1..Len(kept) |-> WithNumber(kept[i], i)]

\* the chain with each session's position in it, then filtered
NumberedChain(store, chain, project, date_from, date_to, tags) ==
    KeepPassing(store, [i \in 1..Len(chain) |-> WithNumber(chain[i], i)],
                project, date_from, date_to, tags)

\* the results list_sessions may return when scoped to a slug
list_sessions_slug(store, slug, limit, project, date_from, date_to, tags) ==
    {Limit(NumberedChain(store, chain, project, date_from, date_to, tags), limit) :
        chain \in ChainOf(store, slug)}

TagFilters == {<<>>, <<"has:planning">>}

ListSessions(slug, limit, project, date_from, date_to, tags) ==
    /\ pc = "idle"
    /\ \E result \in IF slug = NULL
                     THEN list_sessions(db, limit, project, date_from, date_to, tags)
                     ELSE list_sessions_slug(db, slug, limit, project, date_from,
                                             date_to, tags) :
          ret' = [op |-> "list_sessions", slug |-> slug, limit |-> limit,
                  project |-> project, date_from |-> date_from, date_to |-> date_to,
                  tags |-> tags, result |-> result]
    /\ pc' = "answered"
    /\ UNCHANGED <<fs, markers, peer, db, tx, run, budget>>

NextList ==
    \/ \E f \in Files : \E batch \in QueryBatchesOf(f) : AppendBatch(f, batch)
    \/ StartIndex
    \/ ScanFile
    \/ FinishIndex
    \/ \E slug \in {NULL, "a", "zz"} : \E limit \in {1, 20} :
          \E project \in {NULL, <<"q">>} : \E date_from \in {0, 2, 3} :
             \E date_to \in {0, 1} : \E tags \in TagFilters :
                ListSessions(slug, limit, project, date_from, date_to, tags)
    \/ Return

\* the scanner, the transcript writer and list_sessions
SpecList == InitQuery /\ [][NextList]_vars

IsListing == ret.op = "list_sessions"

WithoutNumber(r) == [k \in DOMAIN r \ {"session_number"} |-> r[k]]

\* C19: list_sessions scoped to a slug returns sessions of that chain by
\* ascending first_timestamp, each with session_number its 1-based position
\* in the whole chain, whatever the filters remove (and all that the filters
\* keep, when the limit does not cut the list); an unknown slug gives the
\* empty list; without a slug no row has a session_number.
C19_SlugListingIsNumberedChain ==
    IsListing =>
        LET rows == ret.result
        IN /\ ret.slug = NULL
                => \A i \in 1..Len(rows) : "session_number" \notin DOMAIN rows[i]
           /\ ret.slug # NULL
                => /\ \E chain \in ChainOf(db, ret.slug) :
                         /\ \A i \in 1..Len(rows) :
                               /\ rows[i].session_number \in 1..Len(chain)
                               /\ WithoutNumber(rows[i]) = chain[rows[i].session_number]
                         /\ Len(rows) < ret.limit
                              => \A p \in 1..Len(chain) :
                                    SessionPasses(db, chain[p], ret.project, ret.date_from,
                                                  ret.date_to, ret.tags)
                                      => \E i \in 1..Len(rows) : rows[i].session_number = p
                   /\ \A i \in 1..Len(rows) : \A j \in 1..Len(rows) :
                         i < j => rows[i].session_number < rows[j].session_number
                   /\ NonDecreasing(rows, "first_timestamp")
                   /\ (\A s \in SessionRows(db) : s.slug # ret.slug) => rows = <<>>

\* a tag filter left only the third session of a chain of three, numbered 3
C19_Witness ==
    /\ IsListing
    /\ ret.slug = "a"
    /\ ret.tags = <<"has:planning">>
    /\ Cardinality({s \in SessionRows(db) : s.slug = "a"}) = 3
    /\ Len(ret.result) = 1
    /\ ret.result[1].session_number = 3


----------------------------------------------------------------------------
(* result-size guarding *)

\* the largest limit a query is given; 500 is the largest value the tests
\* show to pass unchanged
MAX_LIMIT == 500

_clamp_limit(limit) ==
    IF limit < 1 THEN 1 ELSE IF limit > MAX_LIMIT THEN MAX_LIMIT ELSE limit

\* C20: every caller-supplied limit is clamped into [1, MAX_LIMIT] before it
\* reaches the store: what get_conversation answers for a limit is what the
\* query gives for the clamped limit (one message for a limit below 1 when
\* the session has messages, never more than MAX_LIMIT).
C20_LimitIsClamped ==
    ret.op = "get_conversation"
        => /\ ret.result \in get_conversation(db, ret.id, ret.around, ret.roles,
                                              _clamp_limit(ret.limit))
           /\ "messages" \in DOMAIN ret.result
                => Len(ret.result.messages) <= MAX_LIMIT


----------------------------------------------------------------------------
(* db.py: decode_project_dir against the directory-name encoding *)

PathChars == {"/", "-", "a", "b"}

RECURSIVE ReplaceSlash(_)
ReplaceSlash(s) ==
    IF s = <<>> THEN <<>>
    ELSE <<IF Head(s) = "/" THEN "-" ELSE Head(s)>> \o ReplaceSlash(Tail(s))

\* the name Claude gives the directory of a project at an absolute path:
\* '-' for the root, then the rest of the path with '/' replaced by '-'
encode_project_dir(path) == <<"-">> \o ReplaceSlash(Tail(path))

Strings(chars, n) == UNION {[1..k -> chars] : k \in 0..n}

AbsolutePaths == {<<"/">> \o s : s \in Strings(PathChars, MaxPathLen - 1)}

\* directory names that do not begin with the reserved prefix
PlainNames ==
    {<<c>> \o s : c \in PathChars \ {"-", "/"}, s \in Strings(PathChars \ {"/"}, MaxPathLen - 1)}

InitDecode ==
    /\ fs = [f \in Files |-> [lines |-> <<>>, size |-> 0]]
    /\ markers = ("a01" :> NULL) @@ ("b02" :> NULL)
    /\ peer = NoPeer
    /\ db = EmptyStore
    /\ tx = EmptyStore
    /\ ret = [op |-> "none"]
    /\ budget = [writes |-> 0, runs |-> 0, tags |-> 0]
    /\ \/ \E path \in AbsolutePaths :
             /\ pc = "encode"
             /\ run = [mode |-> "decode", path |-> path, dirname |-> NULL]
       \/ \E name \in PlainNames :
             /\ pc = "decode"
             /\ run = [mode |-> "decode", path |-> NULL, dirname |-> name]

\* Claude creates the project's directory
EncodeDir ==
    /\ pc = "encode"
    /\ run' = [run EXCEPT !.dirname = encode_project_dir(run.path)]
    /\ pc' = "decode"
    /\ UNCHANGED <<fs, markers, peer, db, tx, ret, budget>>

\* _parse_file decodes the name of the file's directory
DecodeDir ==
    /\ pc = "decode"
    /\ ret' = [op |-> "decode_project_dir", value |-> decode_project_dir(run.dirname)]
    /\ pc' = "decoded"
    /\ UNCHANGED <<fs, markers, peer, db, tx, run, budget>>

NextDecode == EncodeDir \/ DecodeDir

SpecDecode == InitDecode /\ [][NextDecode]_vars

\* C21: decoding the encoded name of an absolute path gives the path back,
\* and a name that does not begin with '-' decodes to itself.
C21_DecodeInvertsEncode ==
    pc = "decoded"
        => /\ run.path # NULL => ret.value = run.path
           /\ Head(run.dirname) # "-" => ret.value = run.dirname


----------------------------------------------------------------------------
(* indexer.py: _parse_file on corrupt lines *)

\* a line beginning with '{' on which json.loads raises an error that is no
\* JSONDecodeError: a number of more than 4300 digits (ValueError), or
\* nesting deeper than the recursion limit (RecursionError)
V0 == [G0 EXCEPT !.type = "overflow"]

Raising(e) == e.type = "overflow"

\* the lines the parser is meant to skip: empty, not beginning with '{',
\* or failing to decode or parse
Corrupt(e) == e.type = "garbage" \/ Raising(e)

\* only (json.JSONDecodeError, UnicodeDecodeError) are caught around
\* json.loads: any other error leaves _parse_file
ParseOutcome(f, file, byte_offset) ==
    IF \E i \in 1..Len(file.lines) : Raising(file.lines[i])
    THEN [raised |-> "ValueError"]
    ELSE _parse_file(f, file, byte_offset)

WholeFile(lines) == [lines |-> lines, size |-> ByteSize(lines)]

ParseLines == {U1, P2, S2, G0, V0}

InitParse ==
    /\ fs = [f \in Files |-> [lines |-> <<>>, size |-> 0]]
    /\ markers = ("a01" :> NULL) @@ ("b02" :> NULL)
    /\ peer = NoPeer
    /\ db = EmptyStore
    /\ tx = EmptyStore
    /\ ret = [op |-> "none"]
    /\ budget = [writes |-> 0, runs |-> 0, tags |-> 0]
    /\ pc = "parse"
    /\ \E lines \in UNION {[1..n -> ParseLines] : n \in 0..MaxParseLines} :
          run = [mode |-> "parse", lines |-> lines]

\* the file as it is and the file with its corrupt lines removed, both parsed
ParseBoth ==
    /\ pc = "parse"
    /\ ret' = [op |-> "_parse_file",
               whole |-> ParseOutcome("f1", WholeFile(run.lines), 0),
               cleaned |-> ParseOutcome("f1",
                              WholeFile(SelectSeq(run.lines, LAMBDA e : ~Corrupt(e))), 0)]
    /\ pc' = "parsed"
    /\ UNCHANGED <<fs, markers, peer, db, tx, run, budget>>

NextParse == ParseBoth

SpecParse == InitParse /\ [][NextParse]_vars

\* C22: a corrupt line is skipped without affecting any other line: a file
\* parses to the messages and session metadata of the same file with its
\* corrupt lines removed.
C22_CorruptLinesAreSkipped ==
    pc = "parsed" => ret.whole = ret.cleaned


----------------------------------------------------------------------------
(* indexer.py: index_all while transcript files disappear *)

\* the transcripts written before the first run
VanishContents(f) ==
    IF f = "f1" THEN {<<U1>>, <<U1, A1>>} ELSE {<<P2>>, <<S2, U1>>}

InitVanish ==
    /\ \E c1 \in VanishContents("f1") : \E c2 \in VanishContents("f2") :
          fs = ("f1" :> [lines |-> c1, size |-> ByteSize(c1), gone |-> FALSE])
               @@ ("f2" :> [lines |-> c2, size |-> ByteSize(c2), gone |-> FALSE])
    /\ markers = ("a01" :> NULL) @@ ("b02" :> NULL)
    /\ peer = NoPeer
    /\ db = EmptyStore
    /\ tx = EmptyStore
    /\ pc = "idle"
    /\ run = IdleRun
    /\ ret = [op |-> "none"]
    /\ budget = [writes |-> 0, runs |-> VanishRuns, tags |-> 0]

\* a transcript file is deleted or made unreadable, at any time
RemoveFile(f) ==
    /\ ~fs[f].gone
    /\ fs' = [fs EXCEPT ![f].gone = TRUE]
    /\ UNCHANGED <<markers, peer, db, tx, pc, run, ret, budget>>

\* filepath.stat(): OSError is caught and the loop continues with the next
\* file (a file deleted before os.walk is not in the list at all)
StatFile ==
    /\ pc = "scan"
    /\ run.idx < Len(FileOrder)
    /\ LET f == FileOrder[run.idx + 1]
       IN IF fs[f].gone
          THEN /\ run' = [run EXCEPT !.idx = @ + 1]
               /\ pc' = "scan"
          ELSE /\ run' = run
               /\ pc' = "open"
    /\ UNCHANGED <<fs, markers, peer, db, tx, ret, budget>>

\* the rest of the loop body: an unchanged file is skipped unopened; any
\* other is opened by _parse_file, whose OSError nothing catches, so
\* index_all ends at its finally with the transaction open
OpenFile ==
    /\ pc = "open"
    /\ LET f == FileOrder[run.idx + 1]
           file == [lines |-> fs[f].lines, size |-> fs[f].size]
       IN IF fs[f].gone /\ ~Unchanged(tx, f, file.size)
          THEN /\ db' = Rollback(db, tx)
               /\ tx' = Rollback(db, tx)
               /\ pc' = "idle"
               /\ run' = IdleRun
               /\ ret' = [op |-> "failed"]
          ELSE LET res == IndexFile(tx, markers, run, f, file)
               IN /\ tx' = res.store
                  /\ run' = res.run
                  /\ db' = Visible(db, res.store)
                  /\ pc' = "scan"
                  /\ ret' = ret
    /\ UNCHANGED <<fs, markers, peer, budget>>

NextVanish ==
    \/ \E f \in Files : RemoveFile(f)
    \/ StartIndex
    \/ StatFile
    \/ OpenFile
    \/ FinishIndex

SpecVanish == InitVanish /\ [][NextVanish]_vars

\* C23: a file that disappears during a run is the only one skipped: the
\* run ends by committing, for every file still there, its messages and
\* its offset.
C23_VanishedFileIsOnlySkipped ==
    [][(pc # "idle" /\ pc' = "idle")
          => /\ ret'.op = "index"
             /\ \A f \in Files :
                   ~fs'[f].gone
                     => /\ f \in DOMAIN db'.files
                        /\ db'.files[f].byte_offset = fs'[f].size]_vars


----------------------------------------------------------------------------
(* server.py: the not-found answers *)

InitNotFound ==
    /\ fs = [f \in Files |-> [lines |-> <<>>, size |-> 0]]
    /\ markers = ("a01" :> "w") @@ ("b02" :> NULL)
    /\ peer = NoPeer
    /\ db = EmptyStore
    /\ tx = EmptyStore
    /\ pc = "idle"
    /\ run = IdleRun
    /\ ret = [op |-> "none"]
    /\ budget = [writes |-> NotFoundWrites, runs |-> NotFoundRuns, tags |-> NotFoundOps]

NextNotFound ==
    \/ \E f \in Files : \E e \in EntriesOf(f) : AppendLine(f, e)
    \/ StartIndex
    \/ ScanFile
    \/ FinishIndex
    \/ ReindexClear
    \/ ReindexMarkers
    \/ \E id \in MessageIds(db) \cup {db.seq + 1} :
           \E tags \in MessageTagLists : TagMessage(id, tags)
    \/ \E sid \in SessionIds : \E tags \in SessionTagLists : TagSession(sid, tags)
    \/ \E id \in {"a01", "a", "zz"} : GetConversation(id, 0, <<>>, 200)
    \/ Return

\* the scanner, a writer that appends, the tag-writing tools and get_conversation
SpecNotFound == InitNotFound /\ [][NextNotFound]_vars

IsTagCall == budget'.tags < budget.tags

IsConversationCall == pc = "idle" /\ pc' = "answered"

\* C24: tag_message on an unknown message id, tag_session on an unknown
\* session id and get_conversation on an identifier that is no session id
\* and no slug each answer with a not-found error, and a call answered so
\* leaves every table of the store as it was.
C24_NotFoundLeavesStore ==
    [][/\ IsTagCall
            => /\ "error" \in DOMAIN ret' => (db' = db /\ tx' = tx)
               /\ "error" \notin DOMAIN ret'
                    => IF ret'.op = "tag_message"
                       THEN ret'.subject \in MessageIds(db)
                       ELSE ret'.subject \in DOMAIN db.sessions
       /\ IsConversationCall
            => /\ db' = db /\ tx' = tx
               /\ "error" \in DOMAIN ret'.result
                    <=> \A s \in SessionRows(db) :
                           s.session_id # ret'.id /\ s.slug # ret'.id]_vars

\* tag_message was answered "not found" on a store that holds messages
C24_Witness ==
    /\ ret.op = "tag_message"
    /\ "error" \in DOMAIN ret
    /\ db.messages # <<>>
    /\ db.mtags # {}


----------------------------------------------------------------------------
(* server.py: tag_message running beside the indexer *)

\* tag_message up to its SELECT: the lookup runs outside any transaction and
\* reads what is committed; an unknown id is answered at once
TagLookup(message_id, tags) ==
    /\ peer = NoPeer
    /\ budget.tags > 0
    /\ budget' = [budget EXCEPT !.tags = @ - 1]
    /\ IF message_id \notin MessageIds(db)
       THEN /\ ret' = [op |-> "tag_message", error |-> "Message not found"]
            /\ peer' = peer
       ELSE /\ peer' = [op |-> "tag_message", message_id |-> message_id, tags |-> tags]
            /\ ret' = ret
    /\ UNCHANGED <<fs, markers, db, tx, pc, run>>

\* tag_message from its INSERT OR IGNORE to its commit: the write waits
\* while the indexer holds the write lock, and nothing looks the message
\* up again
TagWrite ==
    /\ peer # NoPeer
    /\ peer.op = "tag_message"
    /\ NoWriter
    /\ LET done == [db EXCEPT !.mtags =
                       InsertOrIgnoreMany(@, ManualRows(peer.message_id, peer.tags))]
       IN /\ db' = done
          /\ tx' = done
    /\ peer' = NoPeer
    /\ UNCHANGED <<fs, markers, pc, run, ret, budget>>

NextRace ==
    \/ Next
    \/ \E id \in MessageIds(db) \cup {db.seq + 1} :
           \E tags \in MessageTagLists : TagLookup(id, tags)
    \/ TagWrite

\* the scanner, the writer and a tag_message call, statement by statement
SpecRace == InitTags /\ [][NextRace]_vars

\* C25: in every committed state every message tag row names a message row
\* that exists (so none written before a full reindex is left after it).
C25_MessageTagsNotOrphaned ==
    \A r \in db.mtags : r.subject \in MessageIds(db)


----------------------------------------------------------------------------
\* C26: in every committed state that index_all, reindex or tag_session
\* leaves on returning, every session tag row names a session row that
\* exists.
C26_SessionTagsNotOrphaned ==
    (pc = "idle" /\ ret.op # "failed") => \A r \in db.stags : r.subject \in DOMAIN db.sessions


----------------------------------------------------------------------------
(* indexer.py: two index_all runs at the same time *)

\* no transaction begun, nothing read yet
NoStore == [absent |-> TRUE]

\* the second run has written and not committed: it holds the write lock
PeerHoldsLock == peer.op = "index" /\ peer.tx # NoStore

\* what the second run's connection reads: its own transaction once it has
\* written, else what is committed
PeerView == IF PeerHoldsLock THEN peer.tx ELSE db

\* a second index_all is called by another process
PeerStart ==
    /\ peer = NoPeer
    /\ pc = "scan"
    /\ peer' = [op |-> "index", run |-> NewRun("index"), tx |-> NoStore, seen |-> NoStore]
    /\ UNCHANGED <<fs, markers, db, tx, pc, run, ret, budget>>

\* the second run stats the next file and reads its indexed_files row; the
\* SELECT runs before the connection has begun a transaction
PeerStat ==
    /\ peer.op = "index"
    /\ peer.seen = NoStore
    /\ peer.run.idx < Len(FileOrder)
    /\ peer' = [peer EXCEPT !.seen = PeerView]
    /\ UNCHANGED <<fs, markers, db, tx, pc, run, ret, budget>>

\* the second run parses the file and writes: its first write begins its
\* transaction and waits (busy_timeout) for the first run's commit
PeerIndex ==
    /\ peer.op = "index"
    /\ peer.seen # NoStore
    /\ NoWriter
    /\ LET f == FileOrder[peer.run.idx + 1]
           res == IndexFileAt(peer.seen, PeerView, markers, peer.run, f, fs[f])
       IN peer' = [peer EXCEPT !.seen = NoStore, !.run = res.run,
                               !.tx = IF res.store = PeerView THEN @ ELSE res.store]
    /\ UNCHANGED <<fs, markers, db, tx, pc, run, ret, budget>>

\* the second run tags its sessions, applies the markers and commits
PeerFinish ==
    /\ peer.op = "index"
    /\ peer.seen = NoStore
    /\ peer.run.idx = Len(FileOrder)
    /\ NoWriter
    /\ LET done == FinishStore(PeerView, markers, peer.run)
       IN /\ db' = done
          /\ tx' = done
    /\ peer' = NoPeer
    /\ UNCHANGED <<fs, markers, pc, run, ret, budget>>

InitTwo ==
    /\ fs = [f \in Files |-> [lines |-> <<>>, size |-> 0]]
    /\ markers = ("a01" :> "w") @@ ("b02" :> NULL)
    /\ peer = NoPeer
    /\ db = EmptyStore
    /\ tx = EmptyStore
    /\ pc = "idle"
    /\ run = IdleRun
    /\ ret = [op |-> "none"]
    /\ budget = [writes |-> TwoWrites, runs |-> TwoRuns, tags |-> 0]

\* files only grow, and not while a run is under way; a run that is about to
\* write waits while the other holds the write lock
NextTwo ==
    \/ \E f \in Files : \E e \in EntriesOf(f) : peer = NoPeer /\ AppendLine(f, e)
    \/ StartIndex
    \/ ~PeerHoldsLock /\ ScanFile
    \/ ~PeerHoldsLock /\ FinishIndex
    \/ PeerStart
    \/ PeerStat
    \/ PeerIndex
    \/ PeerFinish

SpecTwo == InitTwo /\ [][NextTwo]_vars

\* C27: when two index_all runs overlap and both commit, no transcript
\* record is stored as more than one message row and each session's
\* message_count is its number of message rows.
C27_ConcurrentRunsKeepStoreSound ==
    /\ Len(db.messages) <= Len(AllRecords)
    /\ CountsMatch(db)


----------------------------------------------------------------------------
(* indexer.py: _extract_from_entry on entries of every shape *)

Block(btype, text, name, arg) ==
    [btype |-> btype, text |-> text, name |-> name, arg |-> arg]

\* a text block, a text block of whitespace, a text block without text, two
\* tool invocations (one without a name) and a block of an unknown type
ExtractBlocks ==
    {Block("text", "hi", NULL, NULL), Block("text", " ", NULL, NULL),
     Block("text", NULL, NULL, NULL), Block("tool_use", NULL, "Bash", "pytest"),
     Block("tool_use", NULL, NULL, NULL), Block("image", NULL, NULL, NULL)}

ExtractEntries ==
    {[type |-> t, sid |-> "a01", ts |-> 1, slug |-> NULL, branch |-> NULL,
      cwd |-> NULL, content |-> c, plan |-> p, blocks |-> b, model |-> "m1"] :
        t \in {"user", "assistant", "progress", "summary"},
        c \in {NULL, "LIST", "", " ", "hi"},
        p \in {NULL, "LIST", "", " ", "the plan"},
        b \in UNION {[1..n -> ExtractBlocks] : n \in 0..MaxBlocks}}

InitExtract ==
    /\ fs = [f \in Files |-> [lines |-> <<>>, size |-> 0]]
    /\ markers = ("a01" :> NULL) @@ ("b02" :> NULL)
    /\ peer = NoPeer
    /\ db = EmptyStore
    /\ tx = EmptyStore
    /\ ret = [op |-> "none"]
    /\ budget = [writes |-> 0, runs |-> 0, tags |-> 0]
    /\ pc = "extract"
    /\ \E entry \in ExtractEntries : run = [mode |-> "extract", entry |-> entry]

ExtractEntry ==
    /\ pc = "extract"
    /\ ret' = [op |-> "_extract_from_entry", value |-> _extract_from_entry(run.entry)]
    /\ pc' = "extracted"
    /\ UNCHANGED <<fs, markers, peer, db, tx, run, budget>>

NextExtract == ExtractEntry

SpecExtract == InitExtract /\ [][NextExtract]_vars

Roles(out) == [i \in 1..Len(out) |-> out[i].role]

HasRole(out, role) == \E i \in 1..Len(out) : out[i].role = role

\* a string with something other than whitespace in it
NotBlank(v) == v \notin {NULL, "LIST", "", " "}

\* the texts of the text blocks that are not blank, in order
VisibleTexts(blocks) ==
    LET kept == SelectSeq(blocks, LAMBDA b : b.btype = "text" /\ NotBlank(b.text))
    IN [i \in 1..Len(kept) |-> kept[i].text]

ToolBlocks(blocks) == SelectSeq(blocks, LAMBDA b : b.btype = "tool_use")

\* what the claim says of every entry but the emptiness test, which is the
\* parameter: a user record iff the content passes it, a plan record iff
\* planContent passes it
ExtractContract(filled(_)) ==
    pc = "extracted" =>
        LET e == run.entry
            out == ret.value
        IN /\ Len(out) <= 2
           /\ e.type = "user"
                => /\ HasRole(out, "user") <=> filled(e.content)
                   /\ HasRole(out, "plan") <=> filled(e.plan)
                   /\ Roles(out) \in {<<>>, <<"user">>, <<"plan">>, <<"user", "plan">>}
                   /\ \A i \in 1..Len(out) :
                         out[i].content = <<IF out[i].role = "user" THEN e.content
                                            ELSE e.plan>>
           /\ (e.type = "assistant" /\ e.content = "LIST")
                => /\ Roles(out) \in {<<>>, <<"assistant">>, <<"tool_summary">>,
                                      <<"assistant", "tool_summary">>}
                   /\ HasRole(out, "assistant") <=> VisibleTexts(e.blocks) # <<>>
                   /\ HasRole(out, "tool_summary") <=> ToolBlocks(e.blocks) # <<>>
                   /\ \A i \in 1..Len(out) :
                         IF out[i].role = "assistant"
                         THEN out[i].content = VisibleTexts(e.blocks)
                         ELSE Len(out[i].content) = Len(ToolBlocks(e.blocks))
           /\ (e.type \notin {"user", "assistant"}
                 \/ (e.type = "assistant" /\ e.content # "LIST"))
                => out = <<>>

\* C28 as stated: the emptiness test is "a non-empty string".
C28_ExtractNonEmpty ==
    ExtractContract(LAMBDA v : v \notin {NULL, "LIST", ""})

\* C28, amended: _extract_from_entry returns at most two records and changes
\* nothing; a user entry yields a user record iff its content is a string
\* that is not blank (not empty once whitespace is stripped) and then a plan
\* record iff planContent is such a string; an assistant entry with list
\* content yields at most one assistant record (its non-blank text blocks,
\* joined) followed by at most one tool_summary record (one line per tool
\* invocation); every other entry yields nothing.
C28_ExtractNonBlank ==
    /\ [](ExtractContract(NotBlank))
    /\ [][pc' = "extracted" => UNCHANGED <<fs, markers, db, tx, run>>]_vars

\* a user entry whose content is whitespace and whose planContent is text
\* gave the plan record alone
C28_Witness ==
    /\ pc = "extracted"
    /\ run.entry.type = "user"
    /\ run.entry.content = " "
    /\ Roles(ret.value) = <<"plan">>


----------------------------------------------------------------------------
\* the automatic message tags a stored message carries
AutoTagsOf(store, id) ==
    {r.tag : r \in {t \in store.mtags : t.subject = id /\ t.source = "auto"}}

\* C29: in every committed state that index_all or a full reindex leaves,
\* a stored message carries the automatic tag t exactly when message rule t
\* holds for its role and content.
C29_AutoTagsMatchRules ==
    (pc = "idle" /\ ret.op \in {"index", "reindex"})
        => \A i \in 1..Len(db.messages) :
              AutoTagsOf(db, db.messages[i].id)
                = MESSAGE_TAG_RULES(db.messages[i].role, db.messages[i].content)


----------------------------------------------------------------------------
\* the tool_summary and plan messages stored for a session
RuleMessages(store, sid) ==
    {[role |-> store.messages[i].role, content |-> store.messages[i].content] :
        i \in {j \in 1..Len(store.messages) :
                  /\ store.messages[j].session_id = sid
                  /\ store.messages[j].role \in {"tool_summary", "plan"}}}

SessionRuleTags == {"has:browser", "has:tests", "has:deploy", "has:planning"}

----------------------------------------------------------------------------
(* Session markers written out of band: the incremental pass of index_all *)
(* (_apply_session_markers) and the pass of reindex                       *)
(* (_apply_all_session_markers).                                          *)

\* a user line of a session whose identifier _UUID_RE does not match
Z1 == [U1 EXCEPT !.sid = "zz"]

\* the stems of the marker files in the marker directory
MarkerIds == {"a01", "b02", "zz"}

\* what a marker file may hold: a workstream, an object without one, text
\* that is no JSON (JSONDecodeError), bytes that are no UTF-8
\* (UnicodeDecodeError), JSON that is no object (AttributeError on .get)
MarkerContents == {"w", "", "BAD", "UTF", "LIST"}

\* the exceptions of _read_and_apply_marker its except clause does not name
MarkerRaises(mk, sid) == UuidMatch(sid) /\ mk[sid] \in {"UTF", "LIST"}

\* the marker files _read_and_apply_marker is called for and opens
MarkersOpened(mk, candidates) ==
    {sid \in candidates : MarkerExists(mk, sid) /\ UuidMatch(sid)}

\* the candidates of the pass of index_all, and of the pass of reindex
IndexCandidates(r) == r.all_session_ids

ReindexCandidates(store, mk) ==
    {sid \in DOMAIN mk : sid \in DOMAIN store.sessions}

InitMarkers ==
    /\ fs = [f \in Files |-> [lines |-> <<>>, size |-> 0]]
    /\ markers = [sid \in MarkerIds |-> NULL]
    /\ peer = NoPeer
    /\ db = EmptyStore
    /\ tx = EmptyStore
    /\ pc = "idle"
    /\ run = IdleRun
    /\ ret = [op |-> "none"]
    /\ budget = [writes |-> MarkerWrites, runs |-> MarkerRuns, tags |-> 0]

\* a hook writes or replaces the marker file of a session
WriteMarker(sid, content) ==
    /\ pc = "idle"
    /\ budget.writes > 0
    /\ markers[sid] # content
    /\ markers' = [markers EXCEPT ![sid] = content]
    /\ budget' = [budget EXCEPT !.writes = @ - 1]
    /\ UNCHANGED <<fs, peer, db, tx, pc, run, ret>>

\* The marker pass over the candidates: the files opened are noted in peer.
\* With no raising marker every candidate's file is opened and the pass
\* ends; else the pass stops at the first raising one, in set order.
MarkerPass(candidates, raised) ==
    LET opened == MarkersOpened(markers, candidates)
        raising == {sid \in opened : MarkerRaises(markers, sid)}
    IN IF raising = {}
       THEN /\ ~raised
            /\ peer' = [op |-> "markers", opened |-> opened]
       ELSE /\ raised
            /\ \E bad \in raising : \E before \in SUBSET (opened \ {bad}) :
                   peer' = [op |-> "markers", opened |-> before \cup {bad}]

\* the end of index_all: session tagging, the marker pass, the commit; an
\* exception of the marker pass leaves through the finally, uncommitted
FinishMarked ==
    /\ pc = "scan"
    /\ run.idx = Len(FileOrder)
    /\ \E raised \in BOOLEAN :
          /\ MarkerPass(IndexCandidates(run), raised)
          /\ IF raised
             THEN /\ db' = Rollback(db, tx)
                  /\ tx' = Rollback(db, tx)
                  /\ ret' = [op |-> "failed"]
                  /\ pc' = "idle"
                  /\ run' = IdleRun
             ELSE /\ db' = FinishStore(tx, markers, run)
                  /\ tx' = FinishStore(tx, markers, run)
                  /\ ret' = IF run.mode = "index"
                            THEN [op |-> "index", stats |-> Stats(run)] ELSE ret
                  /\ pc' = IF run.mode = "reindex" THEN "markers" ELSE "idle"
                  /\ run' = IF run.mode = "reindex" THEN run ELSE IdleRun
    /\ UNCHANGED <<fs, markers, budget>>

\* reindex after its index_all returned: the pass over every marker file
ReindexMarked ==
    /\ pc = "markers"
    /\ \E raised \in BOOLEAN :
          /\ MarkerPass(ReindexCandidates(db, markers), raised)
          /\ IF raised
             THEN /\ db' = Rollback(db, tx)
                  /\ tx' = Rollback(db, tx)
                  /\ ret' = [op |-> "failed"]
             ELSE /\ db' = _apply_all_session_markers(db, markers)
                  /\ tx' = _apply_all_session_markers(db, markers)
                  /\ ret' = [op |-> "reindex", stats |-> Stats(run)]
    /\ pc' = "idle"
    /\ run' = IdleRun
    /\ UNCHANGED <<fs, markers, budget>>

NextMarkers ==
    \/ AppendLine("f1", U1)
    \/ AppendLine("f1", Z1)
    \/ AppendLine("f2", P2)
    \/ \E sid \in MarkerIds : \E content \in MarkerContents : WriteMarker(sid, content)
    \/ StartIndex
    \/ ScanFile
    \/ FinishMarked
    \/ ReindexClear
    \/ ReindexMarked

\* the scanner, the writer and the hook that writes marker files
SpecMarkers == InitMarkers /\ [][NextMarkers]_vars

\* the workstream a marker file names for a session the pattern accepts
NamesWorkstream(mk, sid) ==
    /\ MarkerExists(mk, sid)
    /\ UuidMatch(sid)
    /\ mk[sid] \notin {"", "BAD", "UTF", "LIST"}

\* C31: when an incremental index_all run commits, every stored session
\* whose marker file is parseable and names a workstream (valid stem)
\* carries the automatic tag workstream:<value>, also a session that
\* received no new entry in this run.
C31_MarkedSessionsAreTagged ==
    [][(pc = "scan" /\ pc' = "idle" /\ ret'.op = "index") =>
          \A sid \in DOMAIN db'.sessions :
              NamesWorkstream(markers, sid) =>
                  [subject |-> sid, tag |-> "workstream:" \o markers[sid],
                   source |-> "auto"] \in db'.stags]_vars


\* the steps that hold a marker pass: the end of index_all, the end of reindex
MarkerPassStep == (pc = "scan" /\ run.idx = Len(FileOrder)) \/ pc = "markers"

\* a marker file that cannot be read as text or parsed as JSON
Unparseable(mk, sid) == MarkerExists(mk, sid) /\ mk[sid] \in {"BAD", "UTF"}

WorkstreamRows(store, sid) ==
    {r \in store.stags : r.subject = sid
                         /\ r.tag \in {"workstream:" \o c : c \in MarkerContents}}

\* C32: no marker file is ever opened and no workstream tag ever written
\* for a session identifier the identifier pattern rejects, in the pass of
\* index_all and in the pass of reindex; and a pass that meets unreadable
\* or unparseable markers adds no tag for them and does not abort the run.
C32_MarkersAreGuarded ==
    /\ [](/\ peer.op = "markers" => \A sid \in peer.opened : UuidMatch(sid)
          /\ \A sid \in MarkerIds : ~UuidMatch(sid) => WorkstreamRows(db, sid) = {})
    /\ [][(MarkerPassStep /\ \A sid \in MarkerIds : markers[sid] # "LIST") =>
             /\ ret'.op # "failed"
             /\ \A sid \in MarkerIds :
                    Unparseable(markers, sid) =>
                        WorkstreamRows(db', sid) \subseteq WorkstreamRows(tx, sid)]_vars


----------------------------------------------------------------------------
(* get_conversation around a timestamp, over sessions with more messages *)
(* than the window holds on one side                                     *)

\* a user line of session a01 with timestamp t
WindowLine(t) == [U1 EXCEPT !.ts = t]

\* a plan line of session b02, of the same slug, with timestamp t
WindowPlan(t) == [P2 EXCEPT !.slug = "a", !.ts = t]

\* what the writer appends next to a file that holds n lines: six user
\* lines with the next six timestamps to f1, two plan lines with one
\* timestamp (3, 9, 15, ...) to f2
WindowBatch(f, n) ==
    IF f = "f1"
    THEN [i \in 1..6 |-> WindowLine(n + i)]
    ELSE <<WindowPlan(3 * n + 3), WindowPlan(3 * n + 3)>>

WindowTimestamps == {1, 6, 12}

InitWindow ==
    /\ fs = [f \in Files |-> [lines |-> <<>>, size |-> 0]]
    /\ markers = ("a01" :> NULL) @@ ("b02" :> NULL)
    /\ peer = NoPeer
    /\ db = EmptyStore
    /\ tx = EmptyStore
    /\ pc = "idle"
    /\ run = IdleRun
    /\ ret = [op |-> "none"]
    /\ budget = [writes |-> WindowWrites, runs |-> WindowRuns, tags |-> 0]

NextWindow ==
    \/ \E f \in Files : AppendBatch(f, WindowBatch(f, Len(fs[f].lines)))
    \/ StartIndex
    \/ ScanFile
    \/ FinishIndex
    \/ \E id \in {"a01", "a", "zz"} : \E around \in WindowTimestamps :
          \E roles \in {<<>>, <<"user">>} : GetConversation(id, around, roles, 200)
    \/ Return

\* the scanner, the writer of long transcripts and get_conversation
SpecWindow == InitWindow /\ [][NextWindow]_vars

\* the stored messages a call selects: those of the resolved sessions that
\* pass the role filter
SelectedMessages(store, sessions, roles) ==
    {r \in MessageRows(store) :
        /\ \E j \in 1..Len(sessions) : r.session_id = sessions[j].session_id
        /\ roles = <<>> \/ \E i \in 1..Len(roles) : r.role = roles[i]}

\* `part` holds the n rows of `pool` nearest to the timestamp, or all of them
NearestOf(part, pool, n, nearer(_, _)) ==
    /\ part \subseteq pool
    /\ Cardinality(part) = Min(n, Cardinality(pool))
    /\ \A p \in part : \A q \in pool \ part : nearer(p, q)

NotLater(p, q) == p.timestamp >= q.timestamp

NotEarlier(p, q) == p.timestamp <= q.timestamp

IsWindow == IsConversation /\ ret.around # 0

\* C33: get_conversation with around_timestamp T returns, by non-decreasing
\* timestamp and with no message twice, the at most 10 selected messages
\* nearest to T among those at or before T, followed by the at most 10
\* nearest among those after T; selected are the messages of the resolved
\* sessions that pass the role filter, if one is given.
C33_WindowAroundTimestamp ==
    IsWindow =>
        LET messages == ret.result.messages
            selected == SelectedMessages(db, ret.result.sessions, ret.roles)
            before == {r \in SeqRange(messages) : r.timestamp <= ret.around}
            after == {r \in SeqRange(messages) : r.timestamp > ret.around}
        IN /\ NonDecreasing(messages, "timestamp")
           /\ Len(messages) = Cardinality(SeqRange(messages))
           /\ NearestOf(before, {r \in selected : r.timestamp <= ret.around},
                        10, NotLater)
           /\ NearestOf(after, {r \in selected : r.timestamp > ret.around},
                        10, NotEarlier)

\* a window that left out selected messages on the early side, held
\* messages of two sessions and was asked with a role filter or without
C33_Witness ==
    /\ IsWindow
    /\ Cardinality({r \in SelectedMessages(db, ret.result.sessions, ret.roles) :
                       r.timestamp <= ret.around}) > 10
    /\ Cardinality({r \in SeqRange(ret.result.messages) : r.timestamp <= ret.around}) = 10
    /\ \E i \in 1..Len(ret.result.messages) : \E j \in 1..Len(ret.result.messages) :
          ret.result.messages[i].session_id # ret.result.messages[j].session_id


----------------------------------------------------------------------------
(* server.py: list_tags *)

\* SELECT tag, source, COUNT(*) AS cnt FROM <tag table> GROUP BY tag, source
\* ORDER BY cnt DESC: the possible row orders
TagGroups(table) ==
    SortedSeqs({[k |-> 0 - Cardinality({x \in table : x.tag = r.tag /\ x.source = r.source}),
                 row |-> [tag |-> r.tag, source |-> r.source,
                          cnt |-> Cardinality({x \in table : x.tag = r.tag
                                                            /\ x.source = r.source})]] :
                   r \in table})

\* results[tag][source] += cnt; results[tag]["total"] += cnt
AddCount(entry, row) ==
    [entry EXCEPT ![row.source] = @ + row.cnt, !.total = @ + row.cnt]

NewEntry(tag, scope) ==
    [tag |-> tag, scope |-> scope, auto |-> 0, manual |-> 0, total |-> 0]

\* the loop over the rows of message_tags
RECURSIVE MessageTagLoop(_, _)
MessageTagLoop(results, rows) ==
    IF rows = <<>> THEN results
    ELSE LET r == Head(rows)
             entry == IF r.tag \in DOMAIN results THEN results[r.tag]
                      ELSE NewEntry(r.tag, "message")
         IN MessageTagLoop([t \in DOMAIN results \cup {r.tag} |->
                               IF t = r.tag THEN AddCount(entry, r) ELSE results[t]],
                           Tail(rows))

\* the loop over the rows of session_tags
RECURSIVE SessionTagLoop(_, _)
SessionTagLoop(results, rows) ==
    IF rows = <<>> THEN results
    ELSE LET r == Head(rows)
             entry == IF r.tag \notin DOMAIN results THEN NewEntry(r.tag, "session")
                      ELSE IF results[r.tag].scope = "message"
                           THEN [results[r.tag] EXCEPT !.scope = "both"]
                           ELSE [results[r.tag] EXCEPT !.scope = "session"]
         IN SessionTagLoop([t \in DOMAIN results \cup {r.tag} |->
                               IF t = r.tag THEN AddCount(entry, r) ELSE results[t]],
                           Tail(rows))

\* the lists list_tags may return: the entries by descending total
list_tags(store, scope) ==
    UNION {UNION {SortedSeqs({[k |-> 0 - after[t].total, row |-> after[t]] :
                                 t \in DOMAIN after}) :
                     after \in {SessionTagLoop(first, srows) :
                                   srows \in IF scope \in {"all", "session"}
                                             THEN TagGroups(store.stags) ELSE {<<>>}}} :
              first \in {MessageTagLoop(<<>>, mrows) :
                            mrows \in IF scope \in {"all", "message"}
                                      THEN TagGroups(store.mtags) ELSE {<<>>}}}

InitListTags ==
    /\ fs = [f \in Files |-> [lines |-> <<>>, size |-> 0]]
    /\ markers = ("a01" :> "w") @@ ("b02" :> NULL)
    /\ peer = NoPeer
    /\ db = EmptyStore
    /\ tx = EmptyStore
    /\ pc = "idle"
    /\ run = IdleRun
    /\ ret = [op |-> "none"]
    /\ budget = [writes |-> ListTagsWrites, runs |-> ListTagsRuns, tags |-> ListTagsOps]

\* the tool list_tags, called on what is committed
ListTags(scope) ==
    /\ pc = "idle"
    /\ \E result \in list_tags(db, scope) :
          ret' = [op |-> "list_tags", scope |-> scope, result |-> result]
    /\ pc' = "answered"
    /\ UNCHANGED <<fs, markers, peer, db, tx, run, budget>>

\* the tag lists the callers pass here
ListedTagLists == {<<"workstream:w">>, <<"insight">>}

NextListTags ==
    \/ AppendLine("f1", A1)
    \/ AppendLine("f2", P2)
    \/ StartIndex
    \/ ScanFile
    \/ FinishIndex
    \/ \E id \in MessageIds(db) : \E tags \in ListedTagLists : TagMessage(id, tags)
    \/ \E sid \in SessionIds : \E tags \in ListedTagLists : TagSession(sid, tags)
    \/ \E scope \in {"all", "message", "session"} : ListTags(scope)
    \/ Return

\* the scanner, the writer, the tag-writing tools and list_tags
SpecListTags == InitListTags /\ [][NextListTags]_vars

TagNames(table) == {r.tag : r \in table}

CountOf(store, tag, source) ==
    Cardinality({r \in store.mtags : r.tag = tag /\ r.source = source})
    + Cardinality({r \in store.stags : r.tag = tag /\ r.source = source})

\* C34: for scope 'all', list_tags reports each tag once, with the numbers
\* of its automatic and of its manual rows, whose sum is total, and scope
\* 'both' exactly when the tag is on at least one message and at least one
\* session, 'message' when on messages only and 'session' when on sessions
\* only, whatever the mix of automatic and manual rows.
C34_ListTagsCountsAndScope ==
    (ret.op = "list_tags" /\ ret.scope = "all") =>
        LET result == ret.result
        IN /\ {result[i].tag : i \in 1..Len(result)}
                 = TagNames(db.mtags) \cup TagNames(db.stags)
           /\ Len(result) = Cardinality({result[i].tag : i \in 1..Len(result)})
           /\ \A i \in 1..Len(result) :
                 LET e == result[i]
                 IN /\ e.auto = CountOf(db, e.tag, "auto")
                    /\ e.manual = CountOf(db, e.tag, "manual")
                    /\ e.total = e.auto + e.manual
                    /\ e.scope = IF e.tag \in TagNames(db.mtags)
                                 THEN IF e.tag \in TagNames(db.stags)
                                      THEN "both" ELSE "message"
                                 ELSE "session"


----------------------------------------------------------------------------
(* Full reindex against index_all on an empty store *)

\* the loop of index_all over the files as they are now, from `res` on
RECURSIVE ScanAll(_)
ScanAll(res) ==
    IF res.run.idx = Len(FileOrder) THEN res.store
    ELSE LET f == FileOrder[res.run.idx + 1]
         IN ScanAll(IndexFile(res.store, markers, res.run, f, fs[f]))

\* what index_all stores when it runs on an empty store
FreshIndex == ScanAll([store |-> EmptyStore, run |-> NewRun("index")])

\* sessions, messages without their ids, and file-offset records agree
SameContent(one, other) ==
    /\ one.sessions = other.sessions
    /\ one.files = other.files
    /\ Len(one.messages) = Len(other.messages)
    /\ \A i \in 1..Len(one.messages) :
          StripId(one.messages[i]) = StripId(other.messages[i])

\* C35: whatever the store held before, when a full reindex completes the
\* sessions, the messages (without their identifiers) and the file-offset
\* records are those index_all produces on an empty store over the same
\* transcript files.
C35_ReindexEqualsFreshIndex ==
    [][(pc = "markers" /\ pc' = "idle" /\ ret'.op = "reindex") =>
          SameContent(db', FreshIndex)]_vars

\* a reindex completed over a store that had held messages before, of which
\* some are no longer in the transcripts
C35_Witness ==
    /\ pc = "idle"
    /\ ret.op = "reindex"
    /\ db.messages # <<>>
    /\ db.seq > 2 * Len(db.messages)


----------------------------------------------------------------------------
(* Session rows over a sequence of incremental runs *)

\* a line of a session without a timestamp, and later lines of session a01
NoStamp == [U1 EXCEPT !.ts = 0]

Late1 == [U1 EXCEPT !.ts = 3]

MonotoneEntriesOf(f) ==
    IF f = "f1" THEN {A1, NoStamp, Late1} ELSE {U1, P2, [P2 EXCEPT !.ts = 0]}

InitMonotone ==
    /\ fs = [f \in Files |-> [lines |-> <<>>, size |-> 0]]
    /\ markers = ("a01" :> NULL) @@ ("b02" :> NULL)
    /\ peer = NoPeer
    /\ db = EmptyStore
    /\ tx = EmptyStore
    /\ pc = "idle"
    /\ run = IdleRun
    /\ ret = [op |-> "none"]
    /\ budget = [writes |-> MonotoneWrites, runs |-> MonotoneRuns, tags |-> 0]

NextMonotone ==
    \/ \E f \in Files : \E e \in MonotoneEntriesOf(f) : AppendLine(f, e)
    \/ \E f \in Files : \E e \in MonotoneEntriesOf(f) : RewriteFile(f, e)
    \/ StartIndex
    \/ ScanFile
    \/ FinishIndex
    \/ Crash

\* incremental runs only, over files that grow and files that are rewritten
SpecMonotone == InitMonotone /\ [][NextMonotone]_vars

\* from the row `old` of a session to its row `new`
RowMonotone(old, new) ==
    /\ old.first_timestamp # 0 =>
          new.first_timestamp # 0 /\ new.first_timestamp <= old.first_timestamp
    /\ old.last_timestamp # 0 => new.last_timestamp >= old.last_timestamp
    /\ new.message_count >= old.message_count

SessionsMonotone(before, after) ==
    \A sid \in DOMAIN before.sessions :
        sid \in DOMAIN after.sessions
        /\ RowMonotone(before.sessions[sid], after.sessions[sid])

FirstNotAfterLast(store) ==
    \A sid \in DOMAIN store.sessions :
        LET s == store.sessions[sid]
        IN (s.first_timestamp # 0 /\ s.last_timestamp # 0) =>
               s.first_timestamp <= s.last_timestamp

\* C36: over any sequence of incremental index_all runs a session's
\* first_timestamp never increases, its last_timestamp never decreases, its
\* message_count never decreases, in the committed store and within each
\* run; and when both timestamps are set, first_timestamp is at most
\* last_timestamp.
C36_SessionRowsMonotone ==
    /\ [](FirstNotAfterLast(db) /\ FirstNotAfterLast(tx))
    /\ [][/\ SessionsMonotone(db, db')
          /\ (pc = "scan" /\ pc' = "scan") => SessionsMonotone(tx, tx')]_vars

\* after two runs session a01 holds three messages of two files, one of a
\* line without a timestamp, and a range from the least to the greatest
\* timestamp of its lines
C36_Witness ==
    /\ pc = "idle"
    /\ budget.runs = 0
    /\ "a01" \in DOMAIN db.sessions
    /\ db.sessions["a01"].first_timestamp = 1
    /\ db.sessions["a01"].last_timestamp = 3
    /\ db.sessions["a01"].message_count = 3
    /\ \E i \in 1..Len(fs["f1"].lines) : fs["f1"].lines[i] = NoStamp


----------------------------------------------------------------------------
(* A manual session tag followed through later runs *)

InitPin ==
    /\ fs = [f \in Files |-> [lines |-> <<>>, size |-> 0]]
    /\ markers = ("a01" :> "w") @@ ("b02" :> NULL)
    /\ peer = NoPeer
    /\ db = EmptyStore
    /\ tx = EmptyStore
    /\ pc = "idle"
    /\ run = IdleRun
    /\ ret = [op |-> "none"]
    /\ budget = [writes |-> PinWrites, runs |-> PinRuns, tags |-> PinOps]

\* tag_session as called by a client that keeps the answer: peer holds the
\* call that succeeded and whether the INSERT OR IGNORE found the row there
TagSessionKept(session_id, tags) ==
    /\ NoWriter
    /\ budget.tags > 0
    /\ budget' = [budget EXCEPT !.tags = @ - 1]
    /\ IF session_id \notin DOMAIN db.sessions
       THEN /\ ret' = [op |-> "tag_session", error |-> "Session not found"]
            /\ UNCHANGED <<db, tx, peer>>
       ELSE LET done == [db EXCEPT !.stags =
                            InsertOrIgnoreMany(@, ManualRows(session_id, tags))]
            IN /\ db' = done
               /\ tx' = done
               /\ ret' = [op |-> "tag_session", subject |-> session_id, asked |-> tags,
                          tags |-> {r \in done.stags : r.subject = session_id}]
               /\ peer' = [op |-> "tag_session", session_id |-> session_id,
                           tag |-> Head(tags),
                           ignored |-> TagConflict(db.stags,
                                           [subject |-> session_id, tag |-> Head(tags)])]
    /\ UNCHANGED <<fs, markers, pc, run>>

NextPin ==
    \/ \E f \in Files : \E e \in EntriesOf(f) : AppendLine(f, e)
    \/ \E f \in Files : \E e \in EntriesOf(f) : RewriteFile(f, e)
    \/ StartIndex
    \/ ScanFile
    \/ FinishIndex
    \/ ReindexClear
    \/ ReindexMarkers
    \/ \E sid \in SessionIds : \E t \in {"has:planning", "workstream:w", "wip"} :
          TagSessionKept(sid, <<t>>)

\* the scanner, the writer and a client that tags a session once
SpecPin == InitPin /\ [][NextPin]_vars

\* C37: once tag_session(s, [t]) has returned successfully, tag t is
\* attached to session s in every later committed state in which s exists,
\* a full reindex included, also when an automatic row (s, t) was there at
\* the time of the call.
C37_ManualSessionTagStays ==
    (peer.op = "tag_session" /\ peer.session_id \in DOMAIN db.sessions) =>
        \E r \in db.stags : r.subject = peer.session_id /\ r.tag = peer.tag


----------------------------------------------------------------------------
(* Lines that are JSON objects with a session id and unexpected values *)

\* "timestamp": null (written -1 here: None, not the absent key)
NullStamp == [U1 EXCEPT !.ts = -1]

\* a text block whose "text" is a number, not a string
TextNotString ==
    [A1 EXCEPT !.blocks = <<[btype |-> "text", text |-> "INT", name |-> NULL,
                             arg |-> NULL]>>]

\* a Bash tool_use block whose input "command" is a number, not a string
CommandNotString ==
    [A1 EXCEPT !.blocks = <<[btype |-> "tool_use", text |-> NULL, name |-> "Bash",
                             arg |-> "INT"]>>]

\* text.strip() and cmd[:200] on a value that is no string: AttributeError
\* and TypeError leave _extract_from_entry, _parse_file and index_all
ExtractRaises(e) ==
    /\ e.type = "assistant"
    /\ e.content = "LIST"
    /\ \E i \in 1..Len(e.blocks) :
          \/ e.blocks[i].btype = "text" /\ e.blocks[i].text = "INT"
          \/ e.blocks[i].btype = "tool_use" /\ e.blocks[i].name = "Bash"
             /\ e.blocks[i].arg = "INT"

\* messages.timestamp is NOT NULL: the INSERT of a message whose entry has
\* a null timestamp raises IntegrityError
InsertRaises(e) ==
    /\ e.type \in {"user", "assistant"}
    /\ e.ts = -1
    /\ _extract_from_entry(e) # <<>>

LineAborts(e) ==
    e.type # "garbage" /\ e.sid # NULL /\ (ExtractRaises(e) \/ InsertRaises(e))

\* the lines of a file that begin at or after byte_offset
RECURSIVE LinesFrom(_, _, _)
LinesFrom(lines, pos, byte_offset) ==
    IF lines = <<>> THEN <<>>
    ELSE (IF pos >= byte_offset THEN <<Head(lines)>> ELSE <<>>)
         \o LinesFrom(Tail(lines), pos + LineLen(Head(lines)), byte_offset)

InitUnexpected ==
    /\ fs = [f \in Files |-> [lines |-> <<>>, size |-> 0]]
    /\ markers = ("a01" :> NULL) @@ ("b02" :> NULL)
    /\ peer = NoPeer
    /\ db = EmptyStore
    /\ tx = EmptyStore
    /\ pc = "idle"
    /\ run = IdleRun
    /\ ret = [op |-> "none"]
    /\ budget = [writes |-> UnexpectedWrites, runs |-> UnexpectedRuns, tags |-> 0]

\* one pass of the loop of index_all: an exception of the parse or of the
\* INSERT is caught nowhere and ends the run at the finally, uncommitted
ScanUnexpected ==
    /\ pc = "scan"
    /\ run.idx < Len(FileOrder)
    /\ LET f == FileOrder[run.idx + 1]
           read == LinesFrom(fs[f].lines, 0, StartOffset(tx, f, fs[f].size))
       IN IF ~Unchanged(tx, f, fs[f].size)
             /\ \E i \in 1..Len(read) : LineAborts(read[i])
          THEN /\ db' = Rollback(db, tx)
               /\ tx' = Rollback(db, tx)
               /\ pc' = "idle"
               /\ run' = IdleRun
               /\ ret' = [op |-> "failed"]
          ELSE LET res == IndexFile(tx, markers, run, f, fs[f])
               IN /\ tx' = res.store
                  /\ run' = res.run
                  /\ db' = Visible(db, res.store)
                  /\ UNCHANGED <<pc, ret>>
    /\ UNCHANGED <<fs, markers, peer, budget>>

NextUnexpected ==
    \/ \E e \in {U1, A1, NullStamp, TextNotString, CommandNotString} :
          AppendLine("f1", e)
    \/ \E e \in {P2, U1} : AppendLine("f2", e)
    \/ StartIndex
    \/ ScanUnexpected
    \/ FinishIndex

\* the scanner and a writer whose lines may hold unexpected values
SpecUnexpected == InitUnexpected /\ [][NextUnexpected]_vars

\* the records of the lines of a file that hold no unexpected value
ExpectedRecords(f) ==
    RecordsOf(SelectSeq(fs[f].lines, LAMBDA e : ~LineAborts(e)))

\* C38: a line that is a JSON object with a session id and an unexpected
\* value (null timestamp, text that is no string, Bash command that is no
\* string) never aborts index_all: each run ends committed, with the
\* messages of every other line of every file in the store.
C38_UnexpectedValuesDoNotAbort ==
    [][(pc = "scan" /\ pc' = "idle") =>
          /\ ret'.op = "index"
          /\ \A f \in Files : \A i \in 1..Len(ExpectedRecords(f)) :
                \E j \in 1..Len(db'.messages) :
                    StripId(db'.messages[j]) = ExpectedRecords(f)[i]]_vars


----------------------------------------------------------------------------
(* A writer that puts a line into the file in two pieces *)

\* every line of the file is there to its last byte
FileComplete(f) == fs[f].size = ByteSize(fs[f].lines)

InitPartial ==
    /\ fs = [f \in Files |-> [lines |-> <<>>, size |-> 0]]
    /\ markers = ("a01" :> NULL) @@ ("b02" :> NULL)
    /\ peer = NoPeer
    /\ db = EmptyStore
    /\ tx = EmptyStore
    /\ pc = "idle"
    /\ run = IdleRun
    /\ ret = [op |-> "none"]
    /\ budget = [writes |-> PartialWrites, runs |-> PartialRuns, tags |-> 0]

\* the writer appends the first k bytes of the line of entry e
WritePart(f, e, k) ==
    /\ pc = "idle"
    /\ budget.writes > 0
    /\ FileComplete(f)
    /\ k \in 1..(LineLen(e) - 1)
    /\ fs' = [fs EXCEPT ![f] = [lines |-> Append(@.lines, e), size |-> @.size + k]]
    /\ budget' = [budget EXCEPT !.writes = @ - 1]
    /\ UNCHANGED <<markers, peer, db, tx, pc, run, ret>>

\* the writer appends the rest of the line it began
CompleteLine(f) ==
    /\ pc = "idle"
    /\ ~FileComplete(f)
    /\ fs' = [fs EXCEPT ![f] = [lines |-> @.lines, size |-> ByteSize(@.lines)]]
    /\ UNCHANGED <<markers, peer, db, tx, pc, run, ret, budget>>

NextPartial ==
    \/ \E f \in Files : \E e \in EntriesOf(f) : FileComplete(f) /\ AppendLine(f, e)
    \/ \E f \in Files : \E e \in EntriesOf(f) : \E k \in 1..3 : WritePart(f, e, k)
    \/ \E f \in Files : CompleteLine(f)
    \/ StartIndex
    \/ ScanFile
    \/ FinishIndex

\* the scanner and a writer whose lines arrive in pieces
SpecPartial == InitPartial /\ [][NextPartial]_vars

Occurrences(seq, x) == Cardinality({i \in 1..Len(seq) : seq[i] = x})

\* the store holds the messages of the records, each as often as the
\* transcripts hold it
EachRecordOnce(store) ==
    LET stored == [i \in 1..Len(store.messages) |-> StripId(store.messages[i])]
    IN \A x \in SeqRange(stored) \cup SeqRange(AllRecords) :
          Occurrences(stored, x) = Occurrences(AllRecords, x)

\* C39: a record whose line was only partly written when a scan ran is not
\* lost: a run that commits after the writer has completed the line leaves
\* the messages of every record in the store exactly once.
C39_PartialLineNotLost ==
    [][(pc = "scan" /\ pc' = "idle" /\ ret'.op = "index"
        /\ \A f \in Files : FileComplete(f)) => EachRecordOnce(db')]_vars


----------------------------------------------------------------------------
(* A writer that appends between the stat of a file and its read *)

InitLate ==
    /\ fs = [f \in Files |-> [lines |-> <<>>, size |-> 0]]
    /\ markers = ("a01" :> NULL) @@ ("b02" :> NULL)
    /\ peer = NoPeer
    /\ db = EmptyStore
    /\ tx = EmptyStore
    /\ pc = "idle"
    /\ run = IdleRun
    /\ ret = [op |-> "none"]
    /\ budget = [writes |-> LateWrites, runs |-> LateRuns, tags |-> 0]

\* file_size = filepath.stat().st_size, kept in the locals of the run
StatSize ==
    /\ pc = "scan"
    /\ run.idx < Len(FileOrder)
    /\ run' = ("file_size" :> fs[FileOrder[run.idx + 1]].size) @@ run
    /\ pc' = "open"
    /\ UNCHANGED <<fs, markers, peer, db, tx, ret, budget>>

\* the writer appends a complete line to the file the run has just stat'ed
LateAppend(e) ==
    /\ pc = "open"
    /\ budget.writes > 0
    /\ LET f == FileOrder[run.idx + 1]
       IN fs' = [fs EXCEPT ![f] = [lines |-> Append(@.lines, e),
                                   size |-> @.size + LineLen(e)]]
    /\ budget' = [budget EXCEPT !.writes = @ - 1]
    /\ UNCHANGED <<markers, peer, db, tx, pc, run, ret>>

\* the rest of the loop body: the file is read to its end as it is now, the
\* size of the stat is what is compared and stored
ReadFile ==
    /\ pc = "open"
    /\ LET f == FileOrder[run.idx + 1]
           res == IndexFileRead(tx, tx, markers, run, f, run.file_size, fs[f])
       IN /\ tx' = res.store
          /\ run' = res.run
          /\ db' = Visible(db, res.store)
    /\ pc' = "scan"
    /\ UNCHANGED <<fs, markers, peer, ret, budget>>

NextLate ==
    \/ \E f \in Files : \E e \in EntriesOf(f) : AppendLine(f, e)
    \/ \E e \in {U1, A1, P2} : LateAppend(e)
    \/ StartIndex
    \/ StatSize
    \/ ReadFile
    \/ FinishIndex

\* the scanner and a writer that does not wait for it
SpecLate == InitLate /\ [][NextLate]_vars

\* the offset stored for each file is the number of bytes of the lines the
\* scans of the file have read
OffsetIsConsumed(store) ==
    \A f \in DOMAIN store.files :
        store.files[f].byte_offset = ByteSize(store.files[f].glines)

\* no record's messages are in the store more often than in the transcripts
NoRecordTwice(store) ==
    LET stored == [i \in 1..Len(store.messages) |-> StripId(store.messages[i])]
    IN \A x \in SeqRange(stored) : Occurrences(stored, x) <= Occurrences(AllRecords, x)

\* C40: records appended to a file after index_all read its size and before
\* it has read the file are inserted exactly once over this run and the
\* later ones: the offset stored for a file is the number of bytes whose
\* records have been consumed, no record is stored twice, and when every
\* file is recorded at its present size every record is stored once.
C40_LateAppendsExactlyOnce ==
    /\ OffsetIsConsumed(db)
    /\ NoRecordTwice(db)
    /\ (pc = "idle" /\ \A f \in Files : Unchanged(db, f, fs[f].size)) => EachRecordOnce(db)

====
